---- MODULE Spec2Model ----
(***************************************************************************)
(* Tracking-index build and enrichment pipeline of package-confirmation-app *)
(*                                                                         *)
(*   build_cloud_index.py            the cloud builder  (build_index)      *)
(*   scripts/build_tracking_index.py the local builder                     *)
(*   scripts/label_print_gui_cloud.py the scan station (process_tracking)  *)
(*                                                                         *)
(* Text is modelled as a sequence of one-character strings, so that the    *)
(* regular expressions, strip(), upper(), lower() and the substring tests  *)
(* of the Python code are computed character by character.                 *)
(***************************************************************************)
EXTENDS Integers, Sequences, FiniteSets, TLC

VARIABLES
    \* ---- Tracking Normalizer exercised on its own
    nzIn,        \* the raw tracking string handed to normalize_tracking
    nzOnce,      \* normalize_tracking(nzIn)
    nzTwice,     \* normalize_tracking(normalize_tracking(nzIn))
    nzPc,        \* "start" | "cloud1" | "local1" | "cloud2" | "local2" | "idle"
    \* ---- cloud builder, build_cloud_index.py build_index()
    manifests,   \* the list returned by /api/manifests?action=list
    index,       \* the local dict `index`
    phase,       \* which loop of build_index is running
    pos,         \* position in that loop's filtered manifest list
    sanmar_dfs,  \* the frames kept for the Sanmar combined manifest
    ss_dfs,      \* the frames kept for the S&S combined manifest
    output,      \* the lines build_index and __main__ have printed
    \* ---- local builder, scripts/build_tracking_index.py
    manifest_dir,   \* get_manifest_dir(): TRUE when a manifest directory exists
    orders_file,    \* customink_orders.xlsx as found in the directory
    manifest_files, \* the files the glob returns, in its order
    order_index,    \* read_orders_file's dict, the Order-Status Table
    stats,          \* the counters of build_index_from_local
    lpc,            \* where main() is
    lpos,           \* position in manifest_files
    saved,          \* tracking_index.json as save_index_locally wrote it
    \* ---- the remote store
    published,   \* the index last accepted by /api/upload-index
    store,       \* /api/manifests: the listed files deleted, the files posted
    \* ---- scan station, scripts/label_print_gui_cloud.py
    scan         \* what process_tracking resolved for the last scan

nzVars    == <<nzIn, nzOnce, nzTwice, nzPc>>
cloudVars == <<manifests, phase, pos, sanmar_dfs, ss_dfs, output, store>>
localVars == <<manifest_dir, orders_file, manifest_files, order_index, stats,
               lpc, lpos, saved>>
vars      == <<nzVars, cloudVars, localVars, index, published, scan>>

\* what the actions of one component leave alone
notNz    == <<cloudVars, localVars, index, published, scan>>
notCloud == <<nzVars, localVars, scan>>
notLocal == <<nzVars, cloudVars>>

-----------------------------------------------------------------------------
(* Characters and text helpers                                             *)

Digits == {"0", "1", "2", "3", "4", "5", "6", "7", "8", "9"}

LowerSeq == << "a", "b", "c", "d", "e", "f", "g", "h", "i", "j", "k", "l", "m",
               "n", "o", "p", "q", "r", "s", "t", "u", "v", "w", "x", "y", "z" >>

UpperSeq == << "A", "B", "C", "D", "E", "F", "G", "H", "I", "J", "K", "L", "M",
               "N", "O", "P", "Q", "R", "S", "T", "U", "V", "W", "X", "Y", "Z" >>

LowerLetters == {LowerSeq[i] : i \in 1..Len(LowerSeq)}

UpperLetters == {UpperSeq[i] : i \in 1..Len(UpperSeq)}

Whitespace == {" ", "\t", "\n", "\r"}

IsDigit(c) == c \in Digits

IsLetter(c) == c \in LowerLetters \cup UpperLetters

\* [A-Za-z0-9]
IsAlnum(c) == IsDigit(c) \/ IsLetter(c)

LetterIndex(c, alphabet) == CHOOSE i \in 1..Len(alphabet) : alphabet[i] = c

UpperChar(c) == IF c \in LowerLetters THEN UpperSeq[LetterIndex(c, LowerSeq)] ELSE c

LowerChar(c) == IF c \in UpperLetters THEN LowerSeq[LetterIndex(c, UpperSeq)] ELSE c

\* str.upper() and str.lower()
Upper(s) == [i \in 1..Len(s) |-> UpperChar(s[i])]

Lower(s) == [i \in 1..Len(s) |-> LowerChar(s[i])]

\* str.strip(): leading and trailing whitespace removed
Strip(s) ==
    LET keep == {i \in 1..Len(s) : s[i] \notin Whitespace}
    IN  IF keep = {} THEN << >>
        ELSE LET lo == CHOOSE i \in keep : \A j \in keep : i <= j
                 hi == CHOOSE i \in keep : \A j \in keep : j <= i
             IN  SubSeq(s, lo, hi)

\* `sub in s`
Contains(s, sub) ==
    \E i \in 1..(Len(s) - Len(sub) + 1) : SubSeq(s, i, i + Len(sub) - 1) = sub

\* s.startswith(pre)
StartsWith(s, pre) == Len(s) >= Len(pre) /\ SubSeq(s, 1, Len(pre)) = pre

\* re.sub(r'[^0-9]', '', s)
DigitsOf(s) == SelectSeq(s, IsDigit)

-----------------------------------------------------------------------------
(* Calendar arithmetic of datetime                                         *)

DigitSeq == << "0", "1", "2", "3", "4", "5", "6", "7", "8", "9" >>

DigitValue(c) == LetterIndex(c, DigitSeq) - 1

\* int() of a text of digits
RECURSIVE NumberOf(_)
NumberOf(text) ==
    IF text = << >> THEN 0
    ELSE NumberOf(SubSeq(text, 1, Len(text) - 1)) * 10 + DigitValue(text[Len(text)])

IsLeap(y) == y % 4 = 0 /\ (y % 100 # 0 \/ y % 400 = 0)

DaysInMonth(y, m) ==
    IF m = 2 THEN (IF IsLeap(y) THEN 29 ELSE 28)
    ELSE IF m \in {4, 6, 9, 11} THEN 30 ELSE 31

RECURSIVE DaysBeforeMonth(_, _)
DaysBeforeMonth(y, m) ==
    IF m = 1 THEN 0 ELSE DaysBeforeMonth(y, m - 1) + DaysInMonth(y, m - 1)

\* date.toordinal(): 0001-01-01 is day 1
Ordinal(y, m, d) ==
    (y - 1) * 365 + (y - 1) \div 4 - (y - 1) \div 100 + (y - 1) \div 400
        + DaysBeforeMonth(y, m) + d

TwoDigits(n) == << DigitSeq[(n \div 10) + 1], DigitSeq[(n % 10) + 1] >>

-----------------------------------------------------------------------------
(* The texts of the code and of the inputs                                 *)

\* the keywords and filename marks the cloud builder tests for
Kw ==
    [ Tracking |-> << "t", "r", "a", "c", "k", "i", "n", "g" >>,
      CustomerPo |-> << "c", "u", "s", "t", "o", "m", "e", "r", " ", "p", "o" >>,
      CustomerName |-> << "c", "u", "s", "t", "o", "m", "e", "r", " ", "n", "a", "m", "e" >>,
      ShipDate |-> << "s", "h", "i", "p", " ", "d", "a", "t", "e" >>,
      Shipdate |-> << "s", "h", "i", "p", "d", "a", "t", "e" >>,
      Order |-> << "o", "r", "d", "e", "r" >>,
      Customer |-> << "c", "u", "s", "t", "o", "m", "e", "r" >>,
      Name |-> << "n", "a", "m", "e" >>,
      Reference |-> << "r", "e", "f", "e", "r", "e", "n", "c", "e" >>,
      Ref |-> << "r", "e", "f" >>,
      Shipper |-> << "s", "h", "i", "p", "p", "e", "r" >>,
      From |-> << "f", "r", "o", "m" >>,
      SsCombined |-> << "s", "s", "_", "c", "o", "m", "b", "i", "n", "e", "d" >>,
      SanmarCombined |-> << "s", "a", "n", "m", "a", "r", "_", "c", "o", "m", "b", "i", "n", "e", "d" >>,
      Combined |-> << "c", "o", "m", "b", "i", "n", "e", "d" >>,
      Nan |-> << "n", "a", "n" >> ]

\* the MANIFEST_CONFIG patterns and the words the local builder tests for
LocalKw ==
    [ Sanmar |-> << "s", "a", "n", "m", "a", "r" >>,
      SAndS |-> << "s", "&", "s" >>,
      Ss |-> << "s", "s" >>,
      Activewear |-> << "a", "c", "t", "i", "v", "e", "w", "e", "a", "r" >>,
      Inbound |-> << "i", "n", "b", "o", "u", "n", "d" >>,
      CustomInk |-> << "c", "u", "s", "t", "o", "m", "i", "n", "k" >>,
      Id |-> << "i", "d" >>,
      Vendor |-> << "v", "e", "n", "d", "o", "r" >>,
      Department |-> << "d", "e", "p", "a", "r", "t", "m", "e", "n", "t" >>,
      Due |-> << "d", "u", "e" >>,
      Status |-> << "s", "t", "a", "t", "u", "s" >>,
      UpsPrefix |-> << "1", "Z" >> ]

\* the words process_tracking and parse_po_and_suffix test for or show
GuiKw ==
    [ OnHold |-> << "o", "n", " ", "h", "o", "l", "d" >>,
      Pipelined |-> << "p", "i", "p", "e", "l", "i", "n", "e", "d" >>,
      Pipeline |-> << "p", "i", "p", "e", "l", "i", "n", "e" >>,
      Pending |-> << "p", "e", "n", "d", "i", "n", "g" >>,
      OnHoldText |-> << "O", "n", " ", "H", "o", "l", "d" >>,
      PipelinedText |-> << "P", "i", "p", "e", "l", "i", "n", "e", "d" >>,
      Ooshirts |-> << "o", "o", "s", "h", "i", "r", "t", "s" >>,
      FastPlatform |-> << "f", "a", "s", "t", " ", "p", "l", "a", "t", "f", "o", "r", "m" >>,
      UnknownText |-> << "U", "n", "k", "n", "o", "w", "n" >>,
      SpaceDashSpace |-> << " ", "-", " " >> ]

\* the keys and the values of CUSTOMER_NAME_MAPPING
CustomerText ==
    [ BrandAddition |-> << "B", "r", "a", "n", "d", " ", "A", "d", "d", "i", "t", "i", "o", "n" >>,
      FastPlatform |-> << "F", "a", "s", "t", " ", "P", "l", "a", "t", "f", "o", "r", "m" >>,
      Aoswag |-> << "A", "O", "S", "W", "A", "G" >>,
      Ooshirts |-> << "O", "o", "s", "h", "i", "r", "t", "s" >>,
      BsnSports |-> << "B", "S", "N", " ", "S", "p", "o", "r", "t", "s" >>,
      GatewayCdiUpper |-> << "G", "A", "T", "E", "W", "A", "Y", " ", "C", "D", "I" >>,
      GatewayCdiInc |-> << "G", "a", "t", "e", "w", "a", "y", "C", "D", "I", " ", "I", "n", "c" >>,
      GatewayCdi |-> << "G", "a", "t", "e", "w", "a", "y", " ", "C", "D", "I" >>,
      GatewayCdiJoined |-> << "G", "A", "T", "E", "W", "A", "Y", "C", "D", "I" >>,
      EretailingLlc |-> << "E", "r", "e", "t", "a", "i", "l", "i", "n", "g", " ", "T", "e", "c", "h", "n", "o", "l", "o", "g", "y", " ", "G", "r", "o", "u", "p", " ", "L", "L", "C" >>,
      EretailingLlcUpper |-> << "E", "R", "E", "T", "A", "I", "L", "I", "N", "G", " ", "T", "E", "C", "H", "N", "O", "L", "O", "G", "Y", " ", "G", "R", "O", "U", "P", " ", "L", "L", "C" >>,
      ERetailing |-> << "e", "R", "e", "t", "a", "i", "l", "i", "n", "g", " ", "T", "e", "c", "h", "n", "o", "l", "o", "g", "y", " ", "G", "r", "o", "u", "p" >>,
      EretailingCintas |-> << "E", "r", "e", "t", "a", "i", "l", "i", "n", "g", " ", "T", "e", "c", "h", " ", "G", "r", "o", "u", "p", " ", "-", " ", "C", "i", "n", "t", "a", "s" >>,
      Eretailing |-> << "E", "r", "e", "t", "a", "i", "l", "i", "n", "g", " ", "T", "e", "c", "h", "n", "o", "l", "o", "g", "y", " ", "G", "r", "o", "u", "p" >>,
      AdvancedUpper |-> << "A", "D", "V", "A", "N", "C", "E", "D", " ", "G", "R", "A", "P", "H", "I", "C", " ", "P", "R", "O", "D", "U", "C", "T", "S" >>,
      Advanced |-> << "A", "d", "v", "a", "n", "c", "e", "d", " ", "G", "r", "a", "p", "h", "i", "c", " ", "P", "r", "o", "d", "u", "c", "t", "s" >>,
      GetOnChat |-> << "G", "e", "t", "O", "n", "C", "h", "a", "t", " ", "L", "L", "C" >>,
      Bsn |-> << "B", "S", "N", " ", "S", "P", "O", "R", "T", "S", " ", "I", "N", "C" >> ]

\* column headers of manifests and of the orders workbook
Hdr ==
    [ TrackingNumber |-> << "T", "r", "a", "c", "k", "i", "n", "g", " ", "N", "u", "m", "b", "e", "r" >>,
      CustomerPo |-> << "C", "u", "s", "t", "o", "m", "e", "r", " ", "P", "O" >>,
      CustomerName |-> << "C", "u", "s", "t", "o", "m", "e", "r", " ", "N", "a", "m", "e" >>,
      ShipDate |-> << "S", "h", "i", "p", " ", "D", "a", "t", "e" >>,
      ShipDateSanmar |-> << "S", "h", "i", "p", "D", "a", "t", "e" >>,
      Tracking |-> << "T", "r", "a", "c", "k", "i", "n", "g" >>,
      OrderNo |-> << "O", "r", "d", "e", "r", " ", "#" >>,
      Customer |-> << "C", "u", "s", "t", "o", "m", "e", "r" >>,
      Due |-> << "D", "u", "e" >>,
      Reference |-> << "R", "e", "f", "e", "r", "e", "n", "c", "e" >>,
      ShipperName |-> << "S", "h", "i", "p", "p", "e", "r", " ", "N", "a", "m", "e" >>,
      Date |-> << "D", "a", "t", "e" >>,
      Department |-> << "D", "e", "p", "a", "r", "t", "m", "e", "n", "t" >>,
      Vendor |-> << "V", "e", "n", "d", "o", "r" >>,
      DueDate |-> << "D", "u", "e", " ", "D", "a", "t", "e" >>,
      Status |-> << "S", "t", "a", "t", "u", "s" >>,
      OrderStatus |-> << "O", "r", "d", "e", "r", " ", "S", "t", "a", "t", "u", "s" >>,
      Id |-> << "I", "D" >>,
      Po |-> << "P", "O" >> ]

\* filenames of cloud manifests
Fn ==
    [ SsCombined |-> << "s", "s", "_", "c", "o", "m", "b", "i", "n", "e", "d", ".", "x", "l", "s", "x" >>,
      SanmarCombined |-> << "s", "a", "n", "m", "a", "r", "_", "c", "o", "m", "b", "i", "n", "e", "d", ".", "x", "l", "s", "x" >>,
      Ss |-> << "s", "s", "_", "0", "6", "1", "2", ".", "x", "l", "s", "x" >>,
      Sanmar |-> << "s", "a", "n", "m", "a", "r", "_", "0", "6", "1", "2", ".", "c", "s", "v" >>,
      CustomInk |-> << "c", "u", "s", "t", "o", "m", "i", "n", "k", "_", "o", "r", "d", "e", "r", "s", ".", "x", "l", "s", "x" >>,
      Inbound |-> << "i", "n", "b", "o", "u", "n", "d", ".", "c", "s", "v" >> ]

\* filenames of the local manifest directory
LocalFn ==
    [ SanmarA |-> << "s", "a", "n", "m", "a", "r", "_", "a", ".", "c", "s", "v" >>,
      SanmarB |-> << "S", "a", "n", "m", "a", "r", "_", "B", ".", "x", "l", "s", "x" >>,
      Ss |-> << "S", "&", "S", " ", "A", "c", "t", "i", "v", "e", "w", "e", "a", "r", ".", "x", "l", "s", "x" >>,
      Inbound |-> << "i", "n", "b", "o", "u", "n", "d", ".", "c", "s", "v" >>,
      Inbound2 |-> << "I", "n", "b", "o", "u", "n", "d", "_", "2", ".", "x", "l", "s", "x" >>,
      Readme |-> << "r", "e", "a", "d", "m", "e", ".", "c", "s", "v" >> ]

\* cells of manifest rows and of order rows, and texts shown at the station
Cell ==
    [ TrkA |-> << "1", "Z", "9", "9", "9", "A", "A", "1", "0", "1", "2", "3", "4", "5", "6", "7", "8", "4" >>,
      TrkB |-> << " ", "1", "z", "9", "9", "9", "-", "a", "a", "1", " ", "0", "1", "2", "3", "4", "5", "6", "7", "8", "4", " " >>,
      TrkC |-> << "1", "2", "3", "4", "5", "6" >>,
      TrkShort |-> << " ", "1", "2", "3", "4", "5", " " >>,
      TrkBlank |-> << " ", " ", " " >>,
      TrkDash |-> << "-", "-", "-", "-", "-", "-" >>,
      PoA |-> << "7", "6", "5", "4", "3", "2", "1", "B" >>,
      PoB |-> << " ", "1", "2", "3", "4", "5", "6", "7", "A", " " >>,
      PoC |-> << "P", "O", "-", "7", "7" >>,
      CustAcme |-> << "A", "c", "m", "e" >>,
      CustBeta |-> << "B", "e", "t", "a" >>,
      Date1 |-> << "2", "0", "2", "4", "-", "0", "6", "-", "0", "1" >>,
      TrkF |-> << "1", "Z", "0", "0", "0", "0", "0", "0", "0", "0", "0", "0", "0", "0", "0", "0", "0", "1" >>,
      TrkNone |-> << "N", "O", "P", "E" >>,
      TrkG |-> << "1", "Z", "0", "0", "0", "0", "0", "0", "0", "0", "0", "0", "0", "0", "0", "0", "0", "2" >>,
      RefTwo |-> << "7", "6", "5", "4", "3", "2", "1", "C", " ", "|", " ", "8", "0", "0", "1", "2", "3", "4", "B" >>,
      PoOoshirts |-> << "7", "1", "2", "4", "5", "3", "7", " ", "-", " ", "D", "T", "G" >>,
      Ref8001234 |-> << "8", "0", "0", "1", "2", "3", "4", "B", "|", "e", "x", "t", "r", "a", " ", "t", "e", "x", "t" >>,
      RefNote |-> << " ", "x", " ", "|", " ", "1", "2", "3", "4", "5", "6", "7", "A", " " >>,
      RefPlain |-> << "d", "o", "c", "k", " ", "4" >>,
      TrkD |-> << "1", "2", "3", "4", "5", "6", "7", "8", "9", "0", "1", "2" >>,
      TrkE |-> << "1", "Z", "1", "2", "3", "4", "5", "E", "0", "2", "0", "5", "2", "7", "1", "6", "8", "8" >>,
      ShipperUps |-> << "U", "P", "S", " ", "S", "t", "o", "r", "e", ",", " ", "D", "a", "l", "l", "a", "s" >>,
      OrdA |-> << "7", "6", "5", "4", "3", "2", "1" >>,
      OrdAHash |-> << "#", "7", "6", "5", "4", "3", "2", "1" >>,
      OrdB |-> << "1", "2", "3", "4", "5", "6", "7" >>,
      Ord8 |-> << "8", "0", "0", "1", "2", "3", "4" >>,
      Ord5 |-> << "1", "2", "3", "4", "5" >>,
      OrdDash |-> << "1", "2", "-", "3", "4", "-", "5", "6" >>,
      DeptEmb |-> << "E", "m", "b", "r", "o", "i", "d", "e", "r", "y" >>,
      DeptX |-> << "D", "e", "p", "t", " ", "X" >>,
      DeptScreen |-> << "S", "c", "r", "e", "e", "n", " ", "P", "r", "i", "n", "t" >>,
      DeptDtg |-> << "D", "T", "G" >>,
      Date2 |-> << "0", "6", "/", "0", "2", "/", "2", "0", "2", "4" >>,
      Date3 |-> << "2", "0", "2", "4", "-", "0", "6", "-", "0", "3" >>,
      DateFuture |-> << "2", "0", "2", "4", "-", "0", "6", "-", "2", "0" >>,
      DateStamp |-> << "2", "0", "2", "4", "-", "0", "6", "-", "0", "2", " ", "0", "0", ":", "0", "0", ":", "0", "0" >>,
      Today |-> << "2", "0", "2", "4", "-", "0", "6", "-", "1", "2" >>,
      StatusPipelined |-> << "P", "i", "p", "e", "l", "i", "n", "e", "d" >>,
      StatusOnHold |-> << "O", "n", " ", "H", "o", "l", "d" >>,
      StatusPending |-> << "p", "e", "n", "d", "i", "n", "g", " ", "r", "e", "v", "i", "e", "w" >>,
      StatusShipped |-> << "S", "h", "i", "p", "p", "e", "d" >>,
      StatusBoth |-> << "P", "i", "p", "e", "l", "i", "n", "e", "d", " ", "(", "O", "n", " ", "H", "o", "l", "d", ")" >>,
      StatusInPipeline |-> << "I", "n", " ", "p", "i", "p", "e", "l", "i", "n", "e" >>,
      SatJun01 |-> << "S", "a", "t", ",", " ", "J", "u", "n", " ", "0", "1" >> ]

-----------------------------------------------------------------------------
(* 4.1 Tracking Normalizer                                                 *)

\* mutant: the separators are removed but .upper() is forgotten
normalize_tracking_no_upper(tracking) == SelectSeq(tracking, IsAlnum)

\* build_cloud_index.py: re.sub(r'[^A-Za-z0-9]', '', tracking).upper()
normalize_tracking(tracking) == Upper(SelectSeq(tracking, IsAlnum))

\* build_tracking_index.py: re.sub(r'[^A-Za-z0-9]', '', str(val or '')).upper()
normalize_tracking_local(val) ==
    LET text == IF val = << >> THEN << >> ELSE val
    IN  Upper(SelectSeq(text, IsAlnum))

\* a mapping with no key: the Python dict {}
EmptyDict == [k \in {} |-> << >>]

\* d[key] = value
DictPut(d, key, value) ==
    [k \in DOMAIN d \cup {key} |-> IF k = key THEN value ELSE d[k]]

-----------------------------------------------------------------------------
(* Tracking Normalizer on its own: every raw string up to MaxLen           *)

MaxLen == 3

NzAlphabet == {"a", "Z", "7", "-", " "}

NzInputs == UNION {[1..n -> NzAlphabet] : n \in 0..MaxLen}

CloudIdle ==
    /\ manifests = << >>
    /\ phase = "idle"
    /\ pos = 0
    /\ sanmar_dfs = << >>
    /\ ss_dfs = << >>
    /\ output = << >>
    /\ store = [deleted |-> {}, posted |-> << >>]

LocalIdle ==
    /\ manifest_dir = FALSE
    /\ orders_file = [exists |-> FALSE]
    /\ manifest_files = << >>
    /\ order_index = EmptyDict
    /\ stats = EmptyDict
    /\ lpc = "idle"
    /\ lpos = 0
    /\ saved = EmptyDict

ScanIdle == scan = [done |-> FALSE]

InitNormalize ==
    /\ nzIn \in NzInputs
    /\ nzOnce = << >>
    /\ nzTwice = << >>
    /\ nzPc = "start"
    /\ CloudIdle
    /\ LocalIdle
    /\ ScanIdle
    /\ index = EmptyDict
    /\ published = EmptyDict

NormalizeCloud ==
    /\ nzPc = "start"
    /\ nzOnce' = normalize_tracking(nzIn)
    /\ nzPc' = "cloud1"
    /\ UNCHANGED <<nzIn, nzTwice, notNz>>

NormalizeCloudAgain ==
    /\ nzPc = "cloud1"
    /\ nzTwice' = normalize_tracking(nzOnce)
    /\ nzPc' = "cloud2"
    /\ UNCHANGED <<nzIn, nzOnce, notNz>>

NormalizeLocal ==
    /\ nzPc = "start"
    /\ nzOnce' = normalize_tracking_local(nzIn)
    /\ nzPc' = "local1"
    /\ UNCHANGED <<nzIn, nzTwice, notNz>>

NormalizeLocalAgain ==
    /\ nzPc = "local1"
    /\ nzTwice' = normalize_tracking_local(nzOnce)
    /\ nzPc' = "local2"
    /\ UNCHANGED <<nzIn, nzOnce, notNz>>

NextNormalize ==
    \/ NormalizeCloud
    \/ NormalizeCloudAgain
    \/ NormalizeLocal
    \/ NormalizeLocalAgain

SpecNormalize == InitNormalize /\ [][NextNormalize]_vars

\* C1: for every tracking string s, normalize_tracking(s) holds only
\* characters of [A-Z0-9], and normalizing the result again changes nothing,
\* in the cloud builder and in the local builder alike.
C1_NormalizeAlnumUpperIdempotent ==
    /\ nzPc \in {"cloud1", "local1", "cloud2", "local2"} =>
         \A i \in 1..Len(nzOnce) : nzOnce[i] \in UpperLetters \cup Digits
    /\ nzPc \in {"cloud2", "local2"} => nzTwice = nzOnce

\* a raw string with a lower-case letter and a separator has been normalized twice
C1_Witness ==
    /\ nzPc \in {"cloud2", "local2"}
    /\ \E i \in 1..Len(nzIn) : nzIn[i] \in LowerLetters
    /\ \E i \in 1..Len(nzIn) : ~IsAlnum(nzIn[i])
    /\ Len(nzOnce) = 2

-----------------------------------------------------------------------------
(* Cloud builder: build_cloud_index.py                                     *)

\* The if/elif chains that find the columns: rule i is the set of keywords of
\* the i-th branch; a header takes the first branch one of whose keywords it holds.
CombinedRules == << {Kw.Tracking}, {Kw.CustomerPo}, {Kw.CustomerName} >>

SsRules == << {Kw.Tracking}, {Kw.CustomerPo}, {Kw.CustomerName}, {Kw.ShipDate} >>

SanmarRules == << {Kw.Tracking}, {Kw.CustomerPo}, {Kw.CustomerName}, {Kw.Shipdate} >>

CustomInkRules == << {Kw.Tracking}, {Kw.Order}, {Kw.Customer, Kw.Name} >>

InboundRules == << {Kw.Tracking}, {Kw.Reference, Kw.Ref}, {Kw.Shipper, Kw.From} >>

\* the branch of the chain that `col` enters (0: none)
BranchOf(col, rules) ==
    LET col_lower == Lower(col)
        hits == {r \in 1..Len(rules) : \E kw \in rules[r] : Contains(col_lower, kw)}
    IN  IF hits = {} THEN 0 ELSE CHOOSE r \in hits : \A q \in hits : r <= q

\* mutant: a role that no header takes falls back on the first column
ColumnOf_falls_back_on_first(headers, rules, role) ==
    LET hits == {i \in 1..Len(headers) : BranchOf(headers[i], rules) = role}
    IN  IF hits = {} THEN 1 ELSE CHOOSE i \in hits : \A j \in hits : j <= i

\* `for col in df.columns:` assigns on every hit, so the variable of branch
\* `role` ends as the last column that entered it (0: it stays None)
ColumnOf(headers, rules, role) ==
    LET hits == {i \in 1..Len(headers) : BranchOf(headers[i], rules) = role}
    IN  IF hits = {} THEN 0 ELSE CHOOSE i \in hits : \A j \in hits : j <= i

\* str(row.get(col, '')).strip() if col else ''
CellText(row, col) == IF col = 0 THEN << >> ELSE Strip(row[col])

MinTrackingLen == 5

\* mutant: the length test is off by one (>= 5)
TrackingAccepted_off_by_one(tracking) ==
    /\ tracking # << >>
    /\ tracking # Kw.Nan
    /\ Len(tracking) >= MinTrackingLen

\* `if tracking and tracking != 'nan' and len(tracking) > 5:`
TrackingAccepted(tracking) ==
    /\ tracking # << >>
    /\ tracking # Kw.Nan
    /\ Len(tracking) > MinTrackingLen

\* the dict literal stored under the normalized tracking number
CloudEntry(source, po, customer) ==
    [source |-> source, sourceType |-> source, po |-> po, customer |-> customer]

\* `for _, row in df.iterrows():` from row i on
RECURSIVE IndexRows(_, _, _, _, _, _, _)
IndexRows(idx, rows, i, tracking_col, po_col, customer_col, source) ==
    IF i > Len(rows) THEN idx
    ELSE LET row == rows[i]
             tracking == Strip(row[tracking_col])
             next == IF TrackingAccepted(tracking)
                     THEN DictPut(idx, normalize_tracking(tracking),
                                  CloudEntry(source,
                                             CellText(row, po_col),
                                             CellText(row, customer_col)))
                     ELSE idx
         IN  IndexRows(next, rows, i + 1, tracking_col, po_col, customer_col, source)

\* mutant: a fetch or parse error loses what was indexed before
IndexManifest_error_empties_index(idx, m, rules, source) ==
    LET tracking_col == ColumnOf(m.headers, rules, 1)
    IN  IF ~m.readable THEN EmptyDict
        ELSE IF tracking_col = 0 THEN idx
        ELSE IndexRows(idx, m.rows, 1, tracking_col,
                       ColumnOf(m.headers, rules, 2),
                       ColumnOf(m.headers, rules, 3), source)

\* the body of one `try:` block: read the frame, find the columns, index the
\* rows; a fetch or parse error leaves `index` as it was
IndexManifest(idx, m, rules, source) ==
    LET tracking_col == ColumnOf(m.headers, rules, 1)
    IN  IF ~m.readable \/ tracking_col = 0 THEN idx
        ELSE IndexRows(idx, m.rows, 1, tracking_col,
                       ColumnOf(m.headers, rules, 2),
                       ColumnOf(m.headers, rules, 3), source)

\* Bytes of a downloaded file: an ASCII byte is its character, any other byte
\* is written as its two hex digits ("EF", "BB", "BF" are the UTF-8 BOM).
Bom == << "EF", "BB", "BF" >>

\* bytes.decode('utf-8', errors='ignore'): the BOM decodes to the one
\* character U+FEFF (written "FEFF"), a stray non-ASCII byte is dropped
RECURSIVE DecodeIgnore(_)
DecodeIgnore(bytes) ==
    IF bytes = << >> THEN << >>
    ELSE IF StartsWith(bytes, Bom)
         THEN << "FEFF" >> \o DecodeIgnore(SubSeq(bytes, 4, Len(bytes)))
    ELSE IF Len(Head(bytes)) = 1
         THEN << Head(bytes) >> \o DecodeIgnore(Tail(bytes))
    ELSE DecodeIgnore(Tail(bytes))

Prefix(s, n) == SubSeq(s, 1, IF Len(s) < n THEN Len(s) ELSE n)

ValidCsvStarts ==
    { << "\"", "D", "e", "c" >>, << "D", "e", "c", "o" >>,
      Bom \o << "\"" >>, Bom \o << "D" >> }

SniffLen == 50

\* the Sanmar loop's test before pd.read_csv: "appears corrupted"
AppearsCorrupted(content) ==
    /\ Prefix(content, 4) \notin ValidCsvStarts
    /\ LET text == Strip(DecodeIgnore(Prefix(content, SniffLen)))
       IN  /\ ~StartsWith(text, << "\"" >>)
           /\ ~StartsWith(text, << "D", "e", "c", "o" >>)

\* the Sanmar loop's `try:` block: a download that appears corrupted is
\* skipped by `continue` before it is parsed
IndexSanmarFile(idx, m) ==
    IF m.readable /\ AppearsCorrupted(m.content) THEN idx
    ELSE IndexManifest(idx, m, SanmarRules, "sanmar")

\* the list comprehensions that pick each loop's manifests
IsSsCombined(m) == Contains(m.filename, Kw.SsCombined)

IsSanmarCombined(m) == Contains(m.filename, Kw.SanmarCombined)

IsSsFile(m) == m.type = "ss" /\ ~Contains(m.filename, Kw.Combined)

IsSanmarFile(m) == m.type = "sanmar" /\ ~Contains(m.filename, Kw.Combined)

IsCustomInkFile(m) == m.type = "customink"

IsInboundFile(m) == m.type = "inbound"

\* mutant: the individual S&S and Sanmar loops run before the combined ones
PhaseOrder_individual_first ==
    << "ss", "sanmar", "ss_combined", "sanmar_combined", "customink", "inbound",
       "upload", "cleanup", "combined", "done" >>

\* mutant: the Inbound loop runs before the Sanmar and CustomInk loops
PhaseOrder_inbound_early ==
    << "ss_combined", "sanmar_combined", "ss", "inbound", "sanmar", "customink",
       "upload", "cleanup", "combined", "done" >>

\* the loops of build_index in the order of the code, then the upload of the
\* index, the clean-up of the old combined files and the new combined files
PhaseOrder ==
    << "ss_combined", "sanmar_combined", "ss", "sanmar", "customink", "inbound",
       "upload", "cleanup", "combined", "done" >>

PhaseList(ph) ==
    CASE ph = "ss_combined"     -> SelectSeq(manifests, IsSsCombined)
      [] ph = "sanmar_combined" -> SelectSeq(manifests, IsSanmarCombined)
      [] ph = "ss"              -> SelectSeq(manifests, IsSsFile)
      [] ph = "sanmar"          -> SelectSeq(manifests, IsSanmarFile)
      [] ph = "customink"       -> SelectSeq(manifests, IsCustomInkFile)
      [] ph = "inbound"         -> SelectSeq(manifests, IsInboundFile)
      [] OTHER                  -> << >>

\* where control is once the loop at place k of PhaseOrder has reached
\* position p: in that loop while it has a manifest left, else in the next one
RECURSIVE Cursor(_, _)
Cursor(k, p) ==
    IF PhaseOrder[k] \in {"upload", "cleanup", "combined", "done"}
    THEN << PhaseOrder[k], 0 >>
    ELSE IF p <= Len(PhaseList(PhaseOrder[k])) THEN << PhaseOrder[k], p >>
    ELSE Cursor(k + 1, 1)

PhaseIndex(ph) == CHOOSE k \in 1..Len(PhaseOrder) : PhaseOrder[k] = ph

Current == PhaseList(phase)[pos]

\* a printed line: what it reports, the file it names, the number it gives
Line(tag, filename, n) == [tag |-> tag, filename |-> filename, n |-> n]

\* what one `try:` block prints: the count of the rows indexed when a tracking
\* column was found, nothing when none was, the error when the read raised
FileLines(m, rules) ==
    LET tracking_col == ColumnOf(m.headers, rules, 1)
        count == Cardinality({r \in 1..Len(m.rows) :
                                  TrackingAccepted(Strip(m.rows[r][tracking_col]))})
    IN  IF ~m.readable THEN << Line("error", m.filename, 0) >>
        ELSE IF tracking_col = 0 THEN << >>
        ELSE << Line("count", m.filename, count) >>

WindowDays == 10

\* (d - timedelta(days)).strftime('%Y-%m-%d') for the date written in `date`
DaysBefore(date, days) ==
    LET y == NumberOf(SubSeq(date, 1, 4))
        m == NumberOf(SubSeq(date, 6, 7))
        d == NumberOf(SubSeq(date, 9, 10))
        target == Ordinal(y, m, d) - days
        t == CHOOSE t \in {y - 1, y} \X (1..12) \X (1..31) :
                 /\ t[3] <= DaysInMonth(t[1], t[2])
                 /\ Ordinal(t[1], t[2], t[3]) = target
    IN  TwoDigits(t[1] \div 100) \o TwoDigits(t[1] % 100) \o << "-" >>
            \o TwoDigits(t[2]) \o << "-" >> \o TwoDigits(t[3])

\* the build runs on the day Cell.Today
ten_days_ago == DaysBefore(Cell.Today, WindowDays)

\* Python's `a >= b` on str: the first differing characters decide, by code
\* point (the characters of the date cells are listed in that order)
RECURSIVE TextGeq(_, _)
TextGeq(a, b) ==
    LET code_points == << " ", "-", "/" >> \o DigitSeq \o UpperSeq \o LowerSeq
    IN  IF b = << >> THEN TRUE
        ELSE IF a = << >> THEN FALSE
        ELSE IF Head(a) = Head(b) THEN TextGeq(Tail(a), Tail(b))
        ELSE LetterIndex(Head(a), code_points) > LetterIndex(Head(b), code_points)

\* df[ship_date_col].astype(str).str[:10], for Sanmar .str.replace('/', '-')
ShipDateStr(cell, source) ==
    LET text == Prefix(cell, 10)
    IN  IF source = "sanmar"
        THEN [i \in 1..Len(text) |-> IF text[i] = "/" THEN "-" ELSE text[i]]
        ELSE text

\* "Add original dataframe for combined": the rows whose date text is not less
\* than ten_days_ago, when any; the whole frame when there is no date column
KeepRecent(dfs, m, rules, source) ==
    LET ship_date_col == ColumnOf(m.headers, rules, 4)
        recent(row) == TextGeq(ShipDateStr(row[ship_date_col], source), ten_days_ago)
        df_filtered == SelectSeq(m.rows, recent)
    IN  IF ~m.readable THEN dfs
        ELSE IF ship_date_col = 0
        THEN Append(dfs, [headers |-> m.headers, rows |-> m.rows])
        ELSE IF Len(df_filtered) > 0
        THEN Append(dfs, [headers |-> m.headers, rows |-> df_filtered])
        ELSE dfs

\* mutant: the index is published after every file
LoopStep_publishes_each_file(ph, rules, source) ==
    /\ index' = IndexManifest(index, Current, rules, source)
    /\ published' = index'
    /\ output' = output \o FileLines(Current, rules)
    /\ LET c == Cursor(PhaseIndex(ph), pos + 1)
       IN  phase' = c[1] /\ pos' = c[2]
    /\ UNCHANGED <<manifests, store, notCloud>>

\* one iteration of a `for m in ...:` loop
LoopStep(ph, rules, source) ==
    /\ index' = IndexManifest(index, Current, rules, source)
    /\ output' = output \o FileLines(Current, rules)
    /\ LET c == Cursor(PhaseIndex(ph), pos + 1)
       IN  phase' = c[1] /\ pos' = c[2]
    /\ UNCHANGED <<manifests, published, store, notCloud>>

\* mutant: the rows of the old combined file are kept for the new one
ProcessSsCombined_keeps_rows ==
    /\ phase = "ss_combined"
    /\ LoopStep("ss_combined", CombinedRules, "ss")
    /\ ss_dfs' = KeepRecent(ss_dfs, Current, SsRules, "ss")
    /\ UNCHANGED sanmar_dfs

ProcessSsCombined ==
    /\ phase = "ss_combined"
    /\ LoopStep("ss_combined", CombinedRules, "ss")
    /\ UNCHANGED <<sanmar_dfs, ss_dfs>>

ProcessSanmarCombined ==
    /\ phase = "sanmar_combined"
    /\ LoopStep("sanmar_combined", CombinedRules, "sanmar")
    /\ UNCHANGED <<sanmar_dfs, ss_dfs>>

ProcessSsFile ==
    /\ phase = "ss"
    /\ LoopStep("ss", SsRules, "ss")
    /\ ss_dfs' = KeepRecent(ss_dfs, Current, SsRules, "ss")
    /\ UNCHANGED sanmar_dfs

\* a Sanmar download that appears corrupted is skipped by `continue`
ProcessSanmarFile ==
    /\ phase = "sanmar"
    /\ index' = IndexSanmarFile(index, Current)
    /\ IF Current.readable /\ AppearsCorrupted(Current.content)
       THEN /\ output' = Append(output, Line("corrupted", Current.filename, 0))
            /\ sanmar_dfs' = sanmar_dfs
       ELSE /\ output' = output \o FileLines(Current, SanmarRules)
            /\ sanmar_dfs' = KeepRecent(sanmar_dfs, Current, SanmarRules, "sanmar")
    /\ LET c == Cursor(PhaseIndex("sanmar"), pos + 1)
       IN  phase' = c[1] /\ pos' = c[2]
    /\ UNCHANGED <<manifests, published, store, ss_dfs, notCloud>>

ProcessCustomInkFile ==
    /\ phase = "customink"
    /\ LoopStep("customink", CustomInkRules, "customink")
    /\ UNCHANGED <<sanmar_dfs, ss_dfs>>

ProcessInboundFile ==
    /\ phase = "inbound"
    /\ LoopStep("inbound", InboundRules, "inbound")
    /\ UNCHANGED <<sanmar_dfs, ss_dfs>>

\* the count summary, then requests.post(.../api/upload-index): the store
\* replaces the index on 200; status_code 0 stands for no response at all,
\* where requests.post raises and nothing catches it
UploadIndex ==
    /\ phase = "upload"
    /\ \E status_code \in {0, 200, 500} :
          /\ published' = IF status_code = 200 THEN index ELSE published
          /\ output' = output
                 \o << Line("total", << >>, Cardinality(DOMAIN index)) >>
                 \o (IF status_code = 0 THEN << >>
                     ELSE << Line(IF status_code = 200 THEN "upload_success"
                                  ELSE "upload_error", << >>, status_code) >>)
          /\ phase' = IF status_code = 0 THEN "crashed" ELSE "cleanup"
    /\ UNCHANGED <<manifests, index, pos, sanmar_dfs, ss_dfs, store, notCloud>>

\* what the clean-up loop prints from manifest i on: a line for a delete that
\* was answered 200, a line for one that raised, nothing for any other answer
RECURSIVE CleanupLines(_, _)
CleanupLines(i, status) ==
    IF i > Len(manifests) THEN << >>
    ELSE (IF i \notin DOMAIN status \/ status[i] = 500 THEN << >>
          ELSE << Line(IF status[i] = 200 THEN "deleted" ELSE "delete_failed",
                       manifests[i].filename, status[i]) >>)
         \o CleanupLines(i + 1, status)

\* mutant: the clean-up deletes every listed manifest
CleanupOldCombined_deletes_every_file ==
    /\ phase = "cleanup"
    /\ \E status \in [1..Len(manifests) -> {0, 200, 500}] :
          /\ store' = [store EXCEPT
                          !.deleted = @ \cup {i \in DOMAIN status : status[i] = 200}]
          /\ output' = output \o CleanupLines(1, status)
    /\ phase' = "combined"
    /\ UNCHANGED <<manifests, index, published, pos, sanmar_dfs, ss_dfs, notCloud>>

\* "Clean up old combined files first": requests.delete for every listed
\* manifest with 'combined' in its filename; 0 stands for a call that raised
CleanupOldCombined ==
    /\ phase = "cleanup"
    /\ LET old == {i \in 1..Len(manifests) :
                      Contains(manifests[i].filename, Kw.Combined)}
       IN  \E status \in [old -> {0, 200, 500}] :
              /\ store' = [store EXCEPT
                              !.deleted = @ \cup {i \in old : status[i] = 200}]
              /\ output' = output \o CleanupLines(1, status)
    /\ phase' = "combined"
    /\ UNCHANGED <<manifests, index, published, pos, sanmar_dfs, ss_dfs, notCloud>>

\* pd.concat(dfs, ignore_index=True): the columns in the order they first
\* appear, the rows in the order of the frames, NaN where a frame lacks a column
RECURSIVE Concat(_)
Concat(dfs) ==
    IF dfs = << >> THEN [headers |-> << >>, rows |-> << >>]
    ELSE LET front == Concat(SubSeq(dfs, 1, Len(dfs) - 1))
             last == dfs[Len(dfs)]
             unseen(h) == \A j \in 1..Len(front.headers) : front.headers[j] # h
             headers == front.headers \o SelectSeq(last.headers, unseen)
             widen(row, from) ==
                 [j \in 1..Len(headers) |->
                     IF \E k \in 1..Len(from) : from[k] = headers[j]
                     THEN row[CHOOSE k \in 1..Len(from) : from[k] = headers[j]]
                     ELSE Kw.Nan]
         IN  [headers |-> headers,
              rows |-> [i \in 1..Len(front.rows) |-> widen(front.rows[i], front.headers)]
                       \o [i \in 1..Len(last.rows) |-> widen(last.rows[i], last.headers)]]

\* drop_duplicates(subset=cols, keep='first') on the rows of a frame
RECURSIVE KeepFirst(_, _)
KeepFirst(rows, cols) ==
    IF rows = << >> THEN << >>
    ELSE LET front == SubSeq(rows, 1, Len(rows) - 1)
             last == rows[Len(rows)]
             key(row) == [j \in cols |-> row[j]]
         IN  IF \E k \in 1..Len(front) : key(front[k]) = key(last)
             THEN KeepFirst(front, cols)
             ELSE Append(KeepFirst(front, cols), last)

\* the combined manifest of one kind: the frames concatenated, duplicates on
\* the columns with 'tracking' in their name removed, written as an XLSX
CombinedFile(dfs, filename, type) ==
    LET combined == Concat(dfs)
        tracking_cols == {j \in 1..Len(combined.headers) :
                             Contains(Lower(combined.headers[j]), Kw.Tracking)}
    IN  [filename |-> filename, type |-> type, headers |-> combined.headers,
         rows |-> IF tracking_cols # {} THEN KeepFirst(combined.rows, tracking_cols)
                  ELSE combined.rows]

\* what one requests.post(.../api/manifests) leaves: the file in the store on
\* 200, and the line printed; the call is made only `if dfs:`
PostCombined(dfs, filename, type, status_code) ==
    IF dfs = << >> \/ status_code = 0 THEN [posted |-> << >>, lines |-> << >>]
    ELSE IF status_code = 200
    THEN [posted |-> << CombinedFile(dfs, filename, type) >>,
          lines |-> << Line("combined_success", filename, status_code) >>]
    ELSE [posted |-> << >>,
          lines |-> << Line("combined_error", filename, status_code) >>]

\* "Sanmar combined XLSX", then "S&S combined Excel", then build_index returns
\* and __main__ prints "Done!"; a post that raises ends the run where it is
UploadCombined ==
    /\ phase = "combined"
    /\ \E sanmar_status \in (IF sanmar_dfs = << >> THEN {200} ELSE {0, 200, 500}),
          ss_status \in (IF ss_dfs = << >> THEN {200} ELSE {0, 200, 500}) :
          LET sanmar_raised == sanmar_dfs # << >> /\ sanmar_status = 0
              ss_raised == ss_dfs # << >> /\ ss_status = 0
              sanmar_post == PostCombined(sanmar_dfs, Fn.SanmarCombined,
                                          "sanmar_combined", sanmar_status)
              ss_post == IF sanmar_raised THEN [posted |-> << >>, lines |-> << >>]
                         ELSE PostCombined(ss_dfs, Fn.SsCombined, "ss_combined",
                                           ss_status)
              raised == sanmar_raised \/ ss_raised
          IN  /\ store' = [store EXCEPT
                              !.posted = @ \o sanmar_post.posted \o ss_post.posted]
              /\ output' = output \o sanmar_post.lines \o ss_post.lines
                     \o (IF raised THEN << >> ELSE << Line("done", << >>, 0) >>)
              /\ phase' = IF raised THEN "crashed" ELSE "done"
    /\ UNCHANGED <<manifests, index, published, pos, sanmar_dfs, ss_dfs, notCloud>>

NextCloud ==
    \/ ProcessSsCombined
    \/ ProcessSanmarCombined
    \/ ProcessSsFile
    \/ ProcessSanmarFile
    \/ ProcessCustomInkFile
    \/ ProcessInboundFile
    \/ UploadIndex
    \/ CleanupOldCombined
    \/ UploadCombined

-----------------------------------------------------------------------------
(* The manifests a cloud build is run on                                   *)

Kinds == {"ss_combined", "sanmar_combined", "ss", "sanmar", "customink", "inbound"}

FilenameOf(kind) ==
    CASE kind = "ss_combined"     -> Fn.SsCombined
      [] kind = "sanmar_combined" -> Fn.SanmarCombined
      [] kind = "ss"              -> Fn.Ss
      [] kind = "sanmar"          -> Fn.Sanmar
      [] kind = "customink"       -> Fn.CustomInk
      [] kind = "inbound"         -> Fn.Inbound

\* column layouts as the sources deliver them: tracking, PO, customer, date
HeadersOf(kind) ==
    CASE kind \in {"ss_combined", "ss"} ->
             << Hdr.TrackingNumber, Hdr.CustomerPo, Hdr.CustomerName, Hdr.ShipDate >>
      [] kind \in {"sanmar_combined", "sanmar"} ->
             << Hdr.TrackingNumber, Hdr.CustomerPo, Hdr.CustomerName, Hdr.ShipDateSanmar >>
      [] kind = "customink" -> << Hdr.Tracking, Hdr.OrderNo, Hdr.Customer, Hdr.Due >>
      [] kind = "inbound" ->
             << Hdr.TrackingNumber, Hdr.Reference, Hdr.ShipperName, Hdr.Date >>

\* a layout with no tracking column (an order listing)
HeadersNoTracking == << Hdr.OrderNo, Hdr.Department, Hdr.Customer, Hdr.Due >>

GoodContent == << "\"", "D", "e", "c", "o", "r", "a", "t", "o", "r" >>

\* base64 text where the CSV should start
BadContent == << "U", "E", "s", "D", "B", "B", "Q" >>

\* rows of a cloud manifest: tracking, PO, customer, ship date
Row ==
    [ A |-> << Cell.TrkA, Cell.PoA, Cell.CustAcme, Cell.Date3 >>,
      B |-> << Cell.TrkB, Cell.PoB, Cell.CustBeta, Cell.DateFuture >>,
      C |-> << Cell.TrkC, Cell.PoC, Cell.CustAcme, Cell.Date1 >>,
      Short |-> << Cell.TrkShort, Cell.PoC, Cell.CustBeta, Kw.Nan >>,
      Nan |-> << Kw.Nan, Cell.PoC, Cell.CustBeta, Cell.Date2 >>,
      Blank |-> << Cell.TrkBlank, Cell.PoC, Cell.CustBeta, Cell.Date1 >>,
      Dash |-> << Cell.TrkDash, Cell.PoC, Cell.CustBeta, Cell.DateStamp >> ]

RowLists ==
    { << Row.A >>, << Row.B >>, << Row.A, Row.B >>, << Row.C >>,
      << Row.Short, Row.Nan, Row.Blank >>, << Row.Dash >> }

Manifest(kind, headers, rows, readable, content) ==
    [filename |-> FilenameOf(kind), type |-> kind, headers |-> headers,
     rows |-> rows, readable |-> readable, content |-> content]

\* the individual S&S and Sanmar files take every row list, the other kinds
\* the row lists that their loops treat differently
RowListsOf(kind) ==
    CASE kind \in {"ss", "sanmar"} -> RowLists
      [] kind \in {"ss_combined", "sanmar_combined"} ->
             { << Row.A >>, << Row.A, Row.B >>, << Row.C >> }
      [] kind = "customink" -> { << Row.A >>, << Row.Dash >> }
      [] kind = "inbound" ->
             { << Row.B >>, << Row.Short, Row.Nan, Row.Blank >>, << Row.Dash >> }

\* besides the regular files: an order listing filed as CustomInk manifest, an
\* S&S file and an Inbound file that cannot be read, a Sanmar download that is
\* not a CSV, a Sanmar download whose text starts with "Date" after a BOM, and
\* an S&S file with a second column named after the tracking number
ManifestUniverse ==
    UNION { { Manifest(kind, HeadersOf(kind), rows, TRUE, GoodContent) :
                  rows \in RowListsOf(kind) } : kind \in Kinds }
    \cup { Manifest("customink", HeadersNoTracking, << Row.A >>, TRUE, GoodContent),
           Manifest("ss", HeadersOf("ss"), << Row.B >>, FALSE, GoodContent),
           Manifest("inbound", HeadersOf("inbound"), << Row.A >>, FALSE, GoodContent),
           Manifest("sanmar", HeadersOf("sanmar"), << Row.B >>, TRUE, BadContent),
           Manifest("sanmar", HeadersOf("sanmar"), << Row.A >>, TRUE,
                    Bom \o << "D", "a", "t", "e" >>),
           Manifest("ss", HeadersOf("ss") \o << Hdr.Tracking >>,
                    << Row.A \o << Cell.TrkD >>, Row.B \o << Cell.TrkD >> >>,
                    TRUE, GoodContent) }

MaxManifests == 2

\* Every loop picks its manifests by kind, so only the order of the manifests
\* of one kind matters: the listings are taken with the kinds in loop order.
ManifestLists ==
    { l \in UNION {[1..n -> ManifestUniverse] : n \in 0..MaxManifests} :
          \A i, j \in DOMAIN l :
              i < j => PhaseIndex(l[i].type) <= PhaseIndex(l[j].type) }

NzIdle ==
    /\ nzIn = << >>
    /\ nzOnce = << >>
    /\ nzTwice = << >>
    /\ nzPc = "idle"

\* the index an earlier run published: a key that no manifest of this run holds
PreviousIndex ==
    DictPut(EmptyDict, Cell.TrkE, CloudEntry("ss", Cell.PoC, Cell.CustBeta))

InitCloud ==
    /\ manifests \in ManifestLists
    /\ index = EmptyDict
    /\ phase = Cursor(1, 1)[1]
    /\ pos = Cursor(1, 1)[2]
    /\ published = PreviousIndex
    /\ sanmar_dfs = << >>
    /\ ss_dfs = << >>
    /\ output = << >>
    /\ store = [deleted |-> {}, posted |-> << >>]
    /\ NzIdle
    /\ LocalIdle
    /\ ScanIdle

SpecCloud == InitCloud /\ [][NextCloud]_vars

-----------------------------------------------------------------------------
(* Claims about the cloud builder                                          *)

BuildFinished == phase \in {"upload", "done"}

RulesOf(ph) ==
    CASE ph \in {"ss_combined", "sanmar_combined"} -> CombinedRules
      [] ph = "ss" -> SsRules
      [] ph = "sanmar" -> SanmarRules
      [] ph = "customink" -> CustomInkRules
      [] ph = "inbound" -> InboundRules

SourceOf(ph) ==
    CASE ph \in {"ss_combined", "ss"} -> "ss"
      [] ph \in {"sanmar_combined", "sanmar"} -> "sanmar"
      [] ph = "customink" -> "customink"
      [] ph = "inbound" -> "inbound"

LoopPhases == {"ss_combined", "sanmar_combined", "ss", "sanmar", "customink", "inbound"}

\* what manifest m holds when it is read on its own in loop ph
OwnEntries(ph, m) ==
    IF ph = "sanmar" THEN IndexSanmarFile(EmptyDict, m)
    ELSE IndexManifest(EmptyDict, m, RulesOf(ph), SourceOf(ph))

\* the keys the manifests of loop ph hold
KeysIn(ph) ==
    UNION {DOMAIN OwnEntries(ph, PhaseList(ph)[i]) : i \in 1..Len(PhaseList(ph))}

\* the entry for K of the last manifest of loop ph that holds K
LastEntryIn(ph, K) ==
    LET l == PhaseList(ph)
        holders == {i \in 1..Len(l) : K \in DOMAIN OwnEntries(ph, l[i])}
        last == CHOOSE i \in holders : \A j \in holders : j <= i
    IN  OwnEntries(ph, l[last])[K]

\* a tracking cell that the spec says must never be indexed
RejectedCell(cell) ==
    \/ Strip(cell) = << >>
    \/ Strip(cell) = Kw.Nan
    \/ Len(Strip(cell)) <= 5

\* C3 as claimed: every key of the built index is the alphanumeric upper-case
\* form of a source tracking cell and is longer than 5 characters; the empty
\* string is never a key.
C3_KeysLongerThanFive ==
    \A K \in DOMAIN index :
        /\ K # << >>
        /\ Len(K) > 5
        /\ \E ph \in LoopPhases : \E i \in 1..Len(PhaseList(ph)) :
              LET m == PhaseList(ph)[i]
                  col == ColumnOf(m.headers, RulesOf(ph), 1)
              IN  /\ col # 0
                  /\ \E r \in 1..Len(m.rows) : K = normalize_tracking(m.rows[r][col])

\* one step of a loop: every entry it adds or changes comes from a row of the
\* manifest just read whose tracking cell is not a rejected one
OnlyAcceptedRowsWritten ==
    phase \in LoopPhases =>
        \A K \in DOMAIN index' :
            (K \notin DOMAIN index \/ index'[K] # index[K]) =>
                LET col == ColumnOf(Current.headers, RulesOf(phase), 1)
                IN  /\ col # 0
                    /\ \E r \in 1..Len(Current.rows) :
                          /\ ~RejectedCell(Current.rows[r][col])
                          /\ K = normalize_tracking(Strip(Current.rows[r][col]))

\* C4: a row whose detected tracking cell, trimmed, is empty, "nan" or at most
\* 5 characters long never adds or overwrites an index entry, in any of the six
\* loops (combined S&S, combined Sanmar, S&S, Sanmar, CustomInk, Inbound).
C4_RejectedRowsNeverIndexed == [][OnlyAcceptedRowsWritten]_vars

\* a manifest of rejected rows only was read after another one had filled the
\* index, and the build ended with the index holding no key of those rows
C4_Witness ==
    /\ BuildFinished
    /\ index # EmptyDict
    /\ \E i \in 1..Len(manifests) :
          /\ i > 1
          /\ manifests[i].readable
          /\ manifests[i].type = "inbound"
          /\ \A r \in 1..Len(manifests[i].rows) : RejectedCell(manifests[i].rows[r][1])
          /\ Len(manifests[i].rows) = 3
    /\ \A K \in DOMAIN index : Len(K) > 5

\* C5: combined files of a kind are read before the individual files of that
\* kind, so a key held by a combined file and by an individual file of the same
\* kind (and by no manifest of a loop that runs later) ends with the entry of
\* the individual file.
C5_IndividualOverridesCombined ==
    BuildFinished =>
        /\ \A K \in KeysIn("ss_combined") \cap KeysIn("ss") :
              K \notin KeysIn("sanmar") \cup KeysIn("customink") \cup KeysIn("inbound")
                  => index[K] = LastEntryIn("ss", K)
        /\ \A K \in KeysIn("sanmar_combined") \cap KeysIn("sanmar") :
              K \notin KeysIn("customink") \cup KeysIn("inbound")
                  => index[K] = LastEntryIn("sanmar", K)

\* a key is in the Sanmar combined file with one PO and in an individual Sanmar
\* file with another, and the build ended with the individual file's PO
C5_Witness ==
    /\ BuildFinished
    /\ Len(manifests) = 2
    /\ \E K \in KeysIn("sanmar_combined") \cap KeysIn("sanmar") :
          /\ LastEntryIn("sanmar_combined", K).po # LastEntryIn("sanmar", K).po
          /\ index[K].po = LastEntryIn("sanmar", K).po
          /\ index[K].customer = LastEntryIn("sanmar", K).customer

-----------------------------------------------------------------------------
(* Local builder: scripts/build_tracking_index.py                          *)

\* Python's 0-based row[c]
At(row, c) == row[c + 1]

\* MANIFEST_CONFIG, in the order of the dict
ManifestTypes == << "sanmar", "ss", "inbound" >>

Patterns(mtype) ==
    CASE mtype = "sanmar"  -> {LocalKw.Sanmar}
      [] mtype = "ss"      -> {LocalKw.SAndS, LocalKw.Ss, LocalKw.Activewear}
      [] mtype = "inbound" -> {LocalKw.Inbound}

TrackingCols(mtype) ==
    CASE mtype = "sanmar"  -> << 11, 12 >>
      [] mtype = "ss"      -> << 7 >>
      [] mtype = "inbound" -> << 0 >>

PoCol(mtype) ==
    CASE mtype = "sanmar" -> 4 [] mtype = "ss" -> 2 [] mtype = "inbound" -> 1

CustomerCol(mtype) ==
    CASE mtype = "sanmar" -> 2 [] mtype = "ss" -> 1 [] mtype = "inbound" -> 4

\* detect_manifest_type: the first configured type one of whose patterns the
\* lower-cased filename holds, else 'unknown'
detect_manifest_type(filename) ==
    LET lower == Lower(filename)
        hits == {k \in 1..Len(ManifestTypes) :
                    \E pattern \in Patterns(ManifestTypes[k]) : Contains(lower, pattern)}
    IN  IF hits = {} THEN "unknown"
        ELSE ManifestTypes[CHOOSE k \in hits : \A j \in hits : k <= j]

\* the test read_orders_file makes for one of its four column variables
HeaderPasses(role, col_lower) ==
    CASE role = "order"  -> Contains(col_lower, Kw.Order) \/ col_lower = LocalKw.Id
      [] role = "dept"   -> \/ Contains(col_lower, LocalKw.Vendor)
                            \/ Contains(col_lower, LocalKw.Department)
      [] role = "due"    -> Contains(col_lower, LocalKw.Due)
      [] role = "status" -> Contains(col_lower, LocalKw.Status)

\* read_orders_file's four independent `if` tests: the column variable of a
\* role ends as the last header that passes its test (0: None)
LastHeader(headers, role) ==
    LET hits == {i \in 1..Len(headers) : HeaderPasses(role, Lower(headers[i]))}
    IN  IF hits = {} THEN 0 ELSE CHOOSE i \in hits : \A j \in hits : j <= i

\* str(row.get(col, '')) if col else ''
OrderCell(row, col) == IF col = 0 THEN << >> ELSE row[col]

MinOrderDigits == 6

\* mutant: the threshold is one digit lower
OrderKeyAccepted_five_digits(digits) == digits # << >> /\ Len(digits) >= 5

\* `if digits and len(digits) >= 6:`
OrderKeyAccepted(digits) == digits # << >> /\ Len(digits) >= MinOrderDigits

\* `for _, row in df.iterrows():` of read_orders_file, from row i on
RECURSIVE OrderRows(_, _, _, _, _, _, _)
OrderRows(oi, rows, i, order_col, dept_col, due_col, status_col) ==
    IF i > Len(rows) THEN oi
    ELSE LET row == rows[i]
             digits == DigitsOf(row[order_col])
             next == IF OrderKeyAccepted(digits)
                     THEN DictPut(oi, digits,
                                  [department |-> OrderCell(row, dept_col),
                                   dueDate |-> OrderCell(row, due_col),
                                   status |-> OrderCell(row, status_col)])
                     ELSE oi
         IN  OrderRows(next, rows, i + 1, order_col, dept_col, due_col, status_col)

\* mutant: the rows are taken from the last to the first, so that the first
\* row of a key is the one that stays
read_orders_file_first_row_stays(f) ==
    LET order_col == LastHeader(f.headers, "order")
    IN  IF ~f.readable \/ order_col = 0 THEN EmptyDict
        ELSE OrderRows(EmptyDict, [i \in 1..Len(f.rows) |-> f.rows[Len(f.rows) + 1 - i]],
                       1, order_col,
                       LastHeader(f.headers, "dept"),
                       LastHeader(f.headers, "due"),
                       LastHeader(f.headers, "status"))

\* read_orders_file: an unreadable workbook is caught and leaves the dict empty
read_orders_file(f) ==
    LET order_col == LastHeader(f.headers, "order")
    IN  IF ~f.readable \/ order_col = 0 THEN EmptyDict
        ELSE OrderRows(EmptyDict, f.rows, 1, order_col,
                       LastHeader(f.headers, "dept"),
                       LastHeader(f.headers, "due"),
                       LastHeader(f.headers, "status"))

MinLocalTrackingLen == 10

InboundScanCols == 10

LongDigitRun == 12

\* the inbound test of a scanned column: UPS-style or long-digit value
InboundTrackingLike(val) ==
    /\ Len(val) >= MinLocalTrackingLen
    /\ \/ StartsWith(val, LocalKw.UpsPrefix)
       \/ Len(val) >= LongDigitRun /\ \A i \in 1..LongDigitRun : IsDigit(val[i])

\* `trackings` of one row: the first columns of an inbound row that look like
\* a tracking number, else the configured tracking columns
RECURSIVE InboundTrackings(_, _)
InboundTrackings(row, col) ==
    IF col >= Len(row) \/ col >= InboundScanCols THEN << >>
    ELSE LET val == normalize_tracking_local(At(row, col))
         IN  (IF InboundTrackingLike(val) THEN << val >> ELSE << >>)
                 \o InboundTrackings(row, col + 1)

RECURSIVE ConfiguredTrackings(_, _, _)
ConfiguredTrackings(row, cols, k) ==
    IF k > Len(cols) THEN << >>
    ELSE LET val == IF cols[k] < Len(row)
                    THEN normalize_tracking_local(At(row, cols[k])) ELSE << >>
         IN  (IF cols[k] < Len(row) /\ Len(val) >= MinLocalTrackingLen
              THEN << val >> ELSE << >>)
                 \o ConfiguredTrackings(row, cols, k + 1)

Trackings(mtype, row) ==
    IF mtype = "inbound" THEN InboundTrackings(row, 0)
    ELSE ConfiguredTrackings(row, TrackingCols(mtype), 1)

\* text.split(sep) for a one-character separator
RECURSIVE Split(_, _)
Split(text, sep) ==
    LET cuts == {i \in 1..Len(text) : text[i] = sep}
    IN  IF cuts = {} THEN << text >>
        ELSE LET c == CHOOSE i \in cuts : \A j \in cuts : i <= j
             IN  << SubSeq(text, 1, c - 1) >> \o Split(SubSeq(text, c + 1, Len(text)), sep)

\* [t.strip() for t in ref_value.split('|') if t.strip()]
ReferenceTokens(ref_value) ==
    LET parts == Split(ref_value, "|")
        stripped == [i \in 1..Len(parts) |-> Strip(parts[i])]
    IN  SelectSeq(stripped, LAMBDA t : t # << >>)

MinCiDigits == 7

MaxCiDigits == 10

\* mutant: the letter that follows the digits is taken into the group
CiMatch_with_letter(token) ==
    LET hits == {p \in (1..Len(token)) \X (7..10) :
                    /\ p[1] + p[2] <= Len(token)
                    /\ \A j \in p[1]..(p[1] + p[2] - 1) : IsDigit(token[j])
                    /\ IsLetter(token[p[1] + p[2]])}
    IN  IF hits = {} THEN [matched |-> FALSE, group |-> << >>]
        ELSE LET first == CHOOSE p \in hits :
                              \A q \in hits : p[1] < q[1] \/ (p[1] = q[1] /\ p[2] >= q[2])
             IN  [matched |-> TRUE, group |-> SubSeq(token, first[1], first[1] + first[2])]

\* re.search(r'(\d{7,10})[A-Za-z]', token): the leftmost run of 7 to 10
\* digits that a letter follows; group is group(1)
CiMatch(token) ==
    LET hits == {p \in (1..Len(token)) \X (MinCiDigits..MaxCiDigits) :
                    /\ p[1] + p[2] <= Len(token)
                    /\ \A j \in p[1]..(p[1] + p[2] - 1) : IsDigit(token[j])
                    /\ IsLetter(token[p[1] + p[2]])}
    IN  IF hits = {} THEN [matched |-> FALSE, group |-> << >>]
        ELSE LET first == CHOOSE p \in hits :
                              \A q \in hits : p[1] < q[1] \/ (p[1] = q[1] /\ p[2] >= q[2])
             IN  [matched |-> TRUE, group |-> SubSeq(token, first[1], first[1] + first[2] - 1)]

\* mutant: the status of the order record is not copied
WithOrder_without_status(entry, rec) ==
    DictPut(DictPut(entry, "department", rec.department), "dueDate", rec.dueDate)

\* entry['department'] / ['dueDate'] / ['status'] = order_index[key].get(...)
WithOrder(entry, rec) ==
    DictPut(DictPut(DictPut(entry, "department", rec.department),
                    "dueDate", rec.dueDate), "status", rec.status)

\* `for token in entry['referenceTokens']:` from token k on: the first token
\* whose digit run is an order of the table sets the fields and the po
RECURSIVE CiFromTokens(_, _, _, _)
CiFromTokens(entry, tokens, k, oi) ==
    IF k > Len(tokens) THEN entry
    ELSE LET ci_match == CiMatch(tokens[k])
         IN  IF ci_match.matched /\ ci_match.group \in DOMAIN oi
             THEN DictPut(WithOrder(entry, oi[ci_match.group]), "po", ci_match.group)
             ELSE CiFromTokens(entry, tokens, k + 1, oi)

\* mutant: the PO is looked up as written, letters and all
PoDigits_as_written(po) == po

\* po_digits = re.sub(r'[^0-9]', '', po)
PoDigits(po) == DigitsOf(po)

\* mutant: only the first reference token is looked at
LocalEntry_first_token_only(filename, mtype, row, oi) ==
    LET po == IF PoCol(mtype) < Len(row) THEN At(row, PoCol(mtype)) ELSE << >>
        customer == IF CustomerCol(mtype) < Len(row) THEN At(row, CustomerCol(mtype)) ELSE << >>
        entry == [source |-> filename, sourceType |-> mtype, po |-> po, customer |-> customer]
        po_digits == PoDigits(po)
        enriched == IF po # << >> /\ po_digits \in DOMAIN oi
                    THEN WithOrder(entry, oi[po_digits]) ELSE entry
        ref_value == IF Len(row) > 1 THEN At(row, 1) ELSE << >>
        shipper_value == IF Len(row) > 4 THEN At(row, 4) ELSE << >>
        tokens == ReferenceTokens(ref_value)
    IN  IF mtype = "inbound"
        THEN CiFromTokens(DictPut(DictPut(enriched, "shipperName", shipper_value),
                                  "referenceTokens", tokens),
                          IF tokens = << >> THEN tokens ELSE << tokens[1] >>, 1, oi)
        ELSE enriched

\* the entry built for one tracking of one row (lines 243-276)
LocalEntry(filename, mtype, row, oi) ==
    LET po == IF PoCol(mtype) < Len(row) THEN At(row, PoCol(mtype)) ELSE << >>
        customer == IF CustomerCol(mtype) < Len(row) THEN At(row, CustomerCol(mtype)) ELSE << >>
        entry == [source |-> filename, sourceType |-> mtype, po |-> po, customer |-> customer]
        po_digits == PoDigits(po)
        enriched == IF po # << >> /\ po_digits \in DOMAIN oi
                    THEN WithOrder(entry, oi[po_digits]) ELSE entry
        ref_value == IF Len(row) > 1 THEN At(row, 1) ELSE << >>
        shipper_value == IF Len(row) > 4 THEN At(row, 4) ELSE << >>
        tokens == ReferenceTokens(ref_value)
    IN  IF mtype = "inbound"
        THEN CiFromTokens(DictPut(DictPut(enriched, "shipperName", shipper_value),
                                  "referenceTokens", tokens),
                          tokens, 1, oi)
        ELSE enriched

\* `if tracking in index: continue  # Skip duplicates`
SkipDuplicate(idx, tracking) == tracking \in DOMAIN idx

\* `for tracking in trackings:` of one row, from tracking k on; acc holds
\* the index and the stats
RECURSIVE AddTrackings(_, _, _, _, _, _, _)
AddTrackings(acc, trackings, k, filename, mtype, row, oi) ==
    IF k > Len(trackings) THEN acc
    ELSE LET tracking == trackings[k]
             next == IF SkipDuplicate(acc.index, tracking) THEN acc
                     ELSE [index |-> DictPut(acc.index, tracking,
                                             LocalEntry(filename, mtype, row, oi)),
                           stats |-> [acc.stats EXCEPT ![mtype] = @ + 1]]
         IN  AddTrackings(next, trackings, k + 1, filename, mtype, row, oi)

\* `for row in rows:` of one manifest file, from row i on
RECURSIVE LocalRows(_, _, _, _, _, _)
LocalRows(acc, rows, i, filename, mtype, oi) ==
    IF i > Len(rows) THEN acc
    ELSE LET row == rows[i]
             next == IF row = << >> THEN acc
                     ELSE AddTrackings(acc, Trackings(mtype, row), 1, filename, mtype, row, oi)
         IN  LocalRows(next, rows, i + 1, filename, mtype, oi)

\* read_manifest: the CSV reader trims every value, a workbook's cells come
\* as they are
read_manifest(f) ==
    IF f.suffix = "csv"
    THEN [i \in 1..Len(f.rows) |-> [j \in 1..Len(f.rows[i]) |-> Strip(f.rows[i][j])]]
    ELSE f.rows

\* `if 'order' in filename.lower() or 'customink' in filename.lower(): continue`
\* and `if not config: continue`
SkippedFile(filename) ==
    \/ Contains(Lower(filename), Kw.Order)
    \/ Contains(Lower(filename), LocalKw.CustomInk)
    \/ detect_manifest_type(filename) = "unknown"

ZeroStats == [k \in {"sanmar", "ss", "inbound", "total"} |-> 0]

\* main() up to the manifest loop of build_index_from_local: without a
\* manifest directory the build returns (None, None) and main reports failure;
\* otherwise the orders workbook, when present, is read first
StartLocalBuild ==
    /\ lpc = "start"
    /\ index' = EmptyDict
    /\ stats' = ZeroStats
    /\ lpos' = 1
    /\ IF ~manifest_dir
       THEN /\ lpc' = "failed"
            /\ order_index' = order_index
       ELSE /\ lpc' = "files"
            /\ order_index' = IF orders_file.exists THEN read_orders_file(orders_file)
                              ELSE EmptyDict
    /\ UNCHANGED << manifest_dir, orders_file, manifest_files, saved, published, scan, notLocal >>

\* one iteration of `for filepath in manifest_files:`; read_manifest is not
\* guarded, so an unreadable file ends the program with the exception
ProcessLocalFile ==
    /\ lpc = "files"
    /\ lpos <= Len(manifest_files)
    /\ LET f == manifest_files[lpos]
           mtype == detect_manifest_type(f.filename)
       IN  IF SkippedFile(f.filename)
           THEN /\ lpos' = lpos + 1
                /\ UNCHANGED << index, stats, lpc >>
           ELSE IF ~f.readable
           THEN /\ lpc' = "crashed"
                /\ UNCHANGED << index, stats, lpos >>
           ELSE LET acc == LocalRows([index |-> index, stats |-> stats], read_manifest(f),
                                     1, f.filename, mtype, order_index)
                IN  /\ index' = acc.index
                    /\ stats' = acc.stats
                    /\ lpos' = lpos + 1
                    /\ lpc' = lpc
    /\ UNCHANGED << manifest_dir, orders_file, manifest_files, order_index, saved,
                    published, scan, notLocal >>

\* main() without the `if not index:` return: an empty index is saved and
\* goes on to the upload
SaveIndexLocally_saves_empty ==
    /\ lpc = "files"
    /\ lpos > Len(manifest_files)
    /\ stats' = [stats EXCEPT !["total"] = Cardinality(DOMAIN index)]
    /\ lpc' = "upload"
    /\ saved' = [index |-> index, stats |-> stats']
    /\ UNCHANGED << manifest_dir, orders_file, manifest_files, order_index, index, lpos,
                    published, scan, notLocal >>

\* the end of build_index_from_local and main() down to save_index_locally:
\* an empty index is reported as a failed build and nothing is saved
SaveIndexLocally ==
    /\ lpc = "files"
    /\ lpos > Len(manifest_files)
    /\ stats' = [stats EXCEPT !["total"] = Cardinality(DOMAIN index)]
    /\ IF index = EmptyDict
       THEN /\ lpc' = "failed"
            /\ saved' = saved
       ELSE /\ lpc' = "upload"
            /\ saved' = [index |-> index, stats |-> stats']
    /\ UNCHANGED << manifest_dir, orders_file, manifest_files, order_index, index, lpos,
                    published, scan, notLocal >>

\* upload_index: the store takes the index on a 200 answer; any other answer
\* or an exception is printed and main() goes on to print DONE
UploadLocalIndex ==
    /\ lpc = "upload"
    /\ \E outcome \in {"200", "500", "exception"} :
          published' = IF outcome = "200" THEN index ELSE published
    /\ lpc' = "done"
    /\ UNCHANGED << manifest_dir, orders_file, manifest_files, order_index, index, stats,
                    lpos, saved, scan, notLocal >>

-----------------------------------------------------------------------------
(* Scan station: scripts/label_print_gui_cloud.py                          *)

\* CUSTOMER_NAME_MAPPING, in the order of the dict
CUSTOMER_NAME_MAPPING ==
    << << CustomerText.GatewayCdiUpper, CustomerText.BrandAddition >>,
       << CustomerText.GatewayCdiInc, CustomerText.BrandAddition >>,
       << CustomerText.GatewayCdi, CustomerText.BrandAddition >>,
       << CustomerText.GatewayCdiJoined, CustomerText.BrandAddition >>,
       << CustomerText.EretailingLlc, CustomerText.FastPlatform >>,
       << CustomerText.EretailingLlcUpper, CustomerText.FastPlatform >>,
       << CustomerText.ERetailing, CustomerText.FastPlatform >>,
       << CustomerText.EretailingCintas, CustomerText.FastPlatform >>,
       << CustomerText.Eretailing, CustomerText.FastPlatform >>,
       << CustomerText.AdvancedUpper, CustomerText.Aoswag >>,
       << CustomerText.Advanced, CustomerText.Aoswag >>,
       << CustomerText.GetOnChat, CustomerText.Ooshirts >>,
       << CustomerText.Bsn, CustomerText.BsnSports >> >>

\* normalize_customer_name: the value of the first mapping key held by the
\* lower-cased name, else the trimmed name
normalize_customer_name(name) ==
    LET raw == Strip(name)
        low == Lower(raw)
        hits == {k \in 1..Len(CUSTOMER_NAME_MAPPING) :
                    Contains(low, Lower(CUSTOMER_NAME_MAPPING[k][1]))}
    IN  IF hits = {} THEN raw
        ELSE CUSTOMER_NAME_MAPPING[CHOOSE k \in hits : \A j \in hits : k <= j][2]

AllDigits(text) == \A i \in 1..Len(text) : IsDigit(text[i])

\* \d{7,10}
IsCiDigits(text) == AllDigits(text) /\ Len(text) >= MinCiDigits /\ Len(text) <= MaxCiDigits

\* classify_po_type: << po_type, base_digits >>, base_digits << >> for None
classify_po_type(po_field) ==
    LET s == SelectSeq(Upper(Strip(po_field)), LAMBDA c : c # " ")
        dash == {i \in 1..Len(s) : s[i] = "-"}
    IN  IF Len(s) >= 2 /\ IsCiDigits(SubSeq(s, 1, Len(s) - 1)) /\ s[Len(s)] \in UpperLetters
        THEN << "ci_package", SubSeq(s, 1, Len(s) - 1) >>
        ELSE IF IsCiDigits(s) THEN << "ci_plain", s >>
        ELSE IF /\ Cardinality(dash) = 1
                /\ \E i \in dash : /\ IsCiDigits(SubSeq(s, 1, i - 1))
                                   /\ i < Len(s)
                                   /\ AllDigits(SubSeq(s, i + 1, Len(s)))
        THEN << "manifest_sub", << >> >>
        ELSE << "unknown", << >> >>

\* text.split(sep) for a separator of several characters
RECURSIVE SplitOn(_, _)
SplitOn(text, sep) ==
    LET cuts == {i \in 1..(Len(text) - Len(sep) + 1) : SubSeq(text, i, i + Len(sep) - 1) = sep}
    IN  IF cuts = {} THEN << text >>
        ELSE LET c == CHOOSE i \in cuts : \A j \in cuts : i <= j
             IN  << SubSeq(text, 1, c - 1) >>
                     \o SplitOn(SubSeq(text, c + Len(sep), Len(text)), sep)

\* the length of the leading run of digits: (\d+) of re.match
LeadingDigits(text) ==
    LET stops == {i \in 1..Len(text) : ~IsDigit(text[i])}
    IN  IF stops = {} THEN Len(text)
        ELSE (CHOOSE i \in stops : \A j \in stops : i <= j) - 1

\* (.*): up to the end of the line
RestOfLine(text) ==
    LET ends == {i \in 1..Len(text) : text[i] = "\n"}
    IN  IF ends = {} THEN text
        ELSE SubSeq(text, 1, (CHOOSE i \in ends : \A j \in ends : i <= j) - 1)

\* parse_po_and_suffix: << digits, suffix >>
parse_po_and_suffix(po_field) ==
    IF Contains(po_field, GuiKw.SpaceDashSpace)
    THEN LET parts == SplitOn(po_field, GuiKw.SpaceDashSpace)
         IN  << Strip(parts[1]), GuiKw.SpaceDashSpace \o Strip(parts[2]) >>
    ELSE LET n == LeadingDigits(po_field)
         IN  IF n >= 1
             THEN << SubSeq(po_field, 1, n),
                     Strip(SelectSeq(RestOfLine(SubSeq(po_field, n + 1, Len(po_field))),
                                     LAMBDA c : c # "-")) >>
             ELSE << po_field, << >> >>

\* mutant: the pipeline keywords are tested before "on hold"
PipelineFlag_pipeline_first(status) ==
    LET status_lower == Lower(status)
    IN  IF status = << >> THEN << >>
        ELSE IF \E k \in {GuiKw.Pipelined, GuiKw.Pipeline, GuiKw.Pending} : Contains(status_lower, k)
        THEN GuiKw.PipelinedText
        ELSE IF Contains(status_lower, GuiKw.OnHold) THEN GuiKw.OnHoldText
        ELSE << >>

\* the pipeline flag of a status text (lines 527-534)
PipelineFlag(status) ==
    LET status_lower == Lower(status)
    IN  IF status = << >> THEN << >>
        ELSE IF Contains(status_lower, GuiKw.OnHold) THEN GuiKw.OnHoldText
        ELSE IF \E k \in {GuiKw.Pipelined, GuiKw.Pipeline, GuiKw.Pending} : Contains(status_lower, k)
        THEN GuiKw.PipelinedText
        ELSE << >>

\* mutant: the week is counted from Sunday
Weekday_from_sunday(y, m, d) == Ordinal(y, m, d) % 7

\* date.weekday(): Monday is 0
Weekday(y, m, d) == (Ordinal(y, m, d) + 6) % 7

\* the directives of strptime's "%Y-%m-%d": four digits; one or two digits
\* giving 1..12; one or two digits giving 1..31, or a space and a digit
YearText(t) == Len(t) = 4 /\ AllDigits(t)

MonthText(t) == Len(t) \in {1, 2} /\ AllDigits(t) /\ NumberOf(t) \in 1..12

DayText(t) ==
    \/ Len(t) \in {1, 2} /\ AllDigits(t) /\ NumberOf(t) \in 1..31
    \/ Len(t) = 2 /\ t[1] = " " /\ t[2] \in (Digits \ {"0"})

\* dt.strptime(due_date, "%Y-%m-%d"): ok is FALSE where it raises ValueError
ParseYmd(text) ==
    LET parts == Split(text, "-")
    IN  IF Len(parts) # 3 \/ ~YearText(parts[1]) \/ ~MonthText(parts[2]) \/ ~DayText(parts[3])
        THEN [ok |-> FALSE, year |-> 0, month |-> 0, day |-> 0]
        ELSE LET y == NumberOf(parts[1])
                 m == NumberOf(parts[2])
                 d == NumberOf(DigitsOf(parts[3]))
             IN  [ok |-> y >= 1 /\ d <= DaysInMonth(y, m), year |-> y, month |-> m, day |-> d]

WeekdayNames ==
    << << "M", "o", "n" >>,
       << "T", "u", "e" >>,
       << "W", "e", "d" >>,
       << "T", "h", "u" >>,
       << "F", "r", "i" >>,
       << "S", "a", "t" >>,
       << "S", "u", "n" >> >>

MonthNames ==
    << << "J", "a", "n" >>,
       << "F", "e", "b" >>,
       << "M", "a", "r" >>,
       << "A", "p", "r" >>,
       << "M", "a", "y" >>,
       << "J", "u", "n" >>,
       << "J", "u", "l" >>,
       << "A", "u", "g" >>,
       << "S", "e", "p" >>,
       << "O", "c", "t" >>,
       << "N", "o", "v" >>,
       << "D", "e", "c" >> >>

\* parsed.strftime("%a, %b %d")
FormatShort(y, m, d) ==
    WeekdayNames[Weekday(y, m, d) + 1] \o << ",", " " >> \o MonthNames[m]
        \o << " " >> \o TwoDigits(d)

\* lines 537-543: a due date that parses is shown short, any other is kept
FormatDueDate(due_date) ==
    LET parsed == ParseYmd(due_date)
    IN  IF due_date # << >> /\ parsed.ok
        THEN FormatShort(parsed.year, parsed.month, parsed.day)
        ELSE due_date

\* dict.get(key, default)
Get(d, key, default) == IF key \in DOMAIN d THEN d[key] ELSE default

\* the lookup service answers from the published index alone
Lookup(idx, tracking) ==
    IF tracking \in DOMAIN idx THEN DictPut(idx[tracking], "found", TRUE)
    ELSE [found |-> FALSE]

LookupTimeout == 10

RetryTimeout == 60

Label(kind, po, name, due, flag) ==
    [kind |-> kind, po |-> po, name |-> name, due |-> due, flag |-> flag]

LogRow(tracking, po, name, due, status) ==
    [tracking |-> tracking, po |-> po, name |-> name, due |-> due, status |-> status]

\* what one call of process_tracking did
Scanned(tracking, returned, timeouts, dialog, resolved, labels, logs) ==
    [done |-> TRUE, tracking |-> tracking, returned |-> returned, timeouts |-> timeouts,
     dialog |-> dialog, resolved |-> resolved, labels |-> labels, logs |-> logs]

NothingResolved ==
    [source_type |-> "", po_manifest |-> << >>, department |-> << >>,
     due_date |-> << >>, pipeline_flag |-> << >>]

\* process_tracking from line 504 on: result is the answer of the lookup
Resolve(tracking, result, timeouts) ==
    IF ~Get(result, "found", FALSE)
    THEN Scanned(tracking, FALSE, timeouts, "Not Found", NothingResolved, << >>,
                 << LogRow(tracking, << >>, << >>, << >>, "Not Found") >>)
    ELSE
    LET source_type == Get(result, "sourceType", "unknown")
        po_manifest == Get(result, "po", << >>)
        customer == Get(result, "customer", << >>)
        department == Get(result, "department", << >>)
        status == Get(result, "status", << >>)
        must_ship_by == Get(result, "mustShipBy", << >>)
        processes == Get(result, "processes", << >>)
        shipper_name == Get(result, "shipperName", << >>)
        ref_tokens == Get(result, "referenceTokens", << >>)
        customer_norm == normalize_customer_name(customer)
        pipeline_flag == PipelineFlag(status)
        due_date == FormatDueDate(Get(result, "dueDate", << >>))
        resolved == [source_type |-> source_type, po_manifest |-> po_manifest,
                     department |-> department, due_date |-> due_date,
                     pipeline_flag |-> pipeline_flag]
        Printed(label, log) ==
            Scanned(tracking, TRUE, timeouts, "", resolved, << label >>, << log >>)
        po_type == classify_po_type(po_manifest)
        ooshirts == parse_po_and_suffix(po_manifest)
    IN  IF source_type \in {"sanmar", "ss"}
        THEN IF StartsWith(Lower(customer_norm), GuiKw.Ooshirts) /\ ooshirts[1] # << >>
             THEN Printed(Label("label", ooshirts[1], customer_norm \o ooshirts[2],
                                due_date, pipeline_flag),
                          LogRow(tracking, ooshirts[1], customer_norm \o ooshirts[2],
                                 due_date, "Printed"))
             ELSE IF /\ po_type[1] \in {"ci_plain", "ci_package"}
                     /\ po_type[2] # << >>
                     /\ department # << >>
             THEN Printed(Label("label", po_type[2], department, due_date, pipeline_flag),
                          LogRow(tracking, po_type[2], department, due_date, "Printed"))
             ELSE IF Lower(customer_norm) = GuiKw.FastPlatform
             THEN Printed(Label("fast_platform", po_manifest, customer_norm, must_ship_by,
                                processes),
                          LogRow(tracking, po_manifest, customer_norm, must_ship_by,
                                 "Fast Platform Manifest Print"))
             ELSE Printed(Label("manifest", po_manifest, customer_norm, due_date,
                                pipeline_flag),
                          LogRow(tracking, po_manifest, customer_norm, due_date,
                                 "Manifest Print"))
        ELSE IF source_type = "inbound"
        THEN IF department # << >>
             THEN Printed(Label("label", po_manifest, department, due_date, pipeline_flag),
                          LogRow(tracking, po_manifest, department, due_date,
                                 "Inbound CI Fallback"))
             ELSE Printed(Label("inbound_generic", tracking, shipper_name, ref_tokens, << >>),
                          LogRow(tracking, << >>, Split(shipper_name, ",")[1], << >>,
                                 "Inbound Generic"))
        ELSE IF source_type = "customink"
        THEN LET name == IF department # << >> THEN department ELSE customer_norm
             IN  Printed(Label("label", po_manifest, name, due_date, pipeline_flag),
                         LogRow(tracking, po_manifest, name, due_date, "CustomInk Direct"))
        ELSE LET po == IF po_manifest # << >> THEN po_manifest ELSE tracking
             IN  Printed(Label("manifest", po,
                               IF customer_norm # << >> THEN customer_norm ELSE GuiKw.UnknownText,
                               due_date, << >>),
                         LogRow(tracking, po, customer_norm, due_date, "Unknown Source"))

\* mutant: after a timeout the lookup is asked again without the prompt
process_tracking_retries_unasked(raw, first, retry, second, idx) ==
    LET tracking == Strip(raw)
        Failed(timeouts, dialog) ==
            Scanned(tracking, FALSE, timeouts, dialog, NothingResolved, << >>, << >>)
        outcome ==
            IF raw = << >> THEN Scanned(raw, FALSE, << >>, "", NothingResolved, << >>, << >>)
            ELSE IF first = "ok"
            THEN Resolve(tracking, Lookup(idx, tracking), << LookupTimeout >>)
            ELSE IF first = "error" THEN Failed(<< LookupTimeout >>, "API Error")
            ELSE IF second = "ok"
            THEN Resolve(tracking, Lookup(idx, tracking), << LookupTimeout, RetryTimeout >>)
            ELSE Failed(<< LookupTimeout, RetryTimeout >>, "Retry failed")
    IN  outcome @@
            [prompt |-> << >>,
             answers |-> IF raw = << >> THEN << >>
                         ELSE IF first = "timeout" THEN << first, second >>
                         ELSE << first >>]

\* process_tracking: the lookup is asked with a 10 second timeout; on a
\* timeout the operator is asked (askyesno) and may have it asked once more
\* with 60 seconds.  `answers` are the answers of the requests made, `prompt`
\* the operator's answer when the retry prompt was shown.
process_tracking(raw, first, retry, second, idx) ==
    LET tracking == Strip(raw)
        Failed(timeouts, dialog) ==
            Scanned(tracking, FALSE, timeouts, dialog, NothingResolved, << >>, << >>)
        outcome ==
            IF raw = << >> THEN Scanned(raw, FALSE, << >>, "", NothingResolved, << >>, << >>)
            ELSE IF first = "ok"
            THEN Resolve(tracking, Lookup(idx, tracking), << LookupTimeout >>)
            ELSE IF first = "error" THEN Failed(<< LookupTimeout >>, "API Error")
            ELSE IF ~retry THEN Failed(<< LookupTimeout >>, "Connection Timeout")
            ELSE IF second = "ok"
            THEN Resolve(tracking, Lookup(idx, tracking), << LookupTimeout, RetryTimeout >>)
            ELSE Failed(<< LookupTimeout, RetryTimeout >>, "Retry failed")
    IN  outcome @@
            [prompt |-> IF raw # << >> /\ first = "timeout" THEN << retry >> ELSE << >>,
             answers |-> IF raw = << >> THEN << >>
                         ELSE IF first = "timeout" /\ retry THEN << first, second >>
                         ELSE << first >>]

-----------------------------------------------------------------------------
(* The manifest directories of the local builder                           *)

EmptyCell == << >>

\* rows as read_manifest returns them: cell c of a row is column c (0-based)
SanmarRow(tracking, po, customer) ==
    << EmptyCell, EmptyCell, customer, EmptyCell, po, EmptyCell, EmptyCell, EmptyCell,
       EmptyCell, EmptyCell, EmptyCell, tracking, EmptyCell >>

SsRow(tracking, po, customer) ==
    << EmptyCell, customer, po, EmptyCell, EmptyCell, EmptyCell, EmptyCell, tracking >>

InboundRow(tracking, reference, shipper) ==
    << tracking, reference, EmptyCell, EmptyCell, shipper >>

LocalFile(filename, suffix, readable, rows) ==
    [filename |-> filename, suffix |-> suffix, readable |-> readable, rows |-> rows]

LocalFileUniverse ==
    { LocalFile(LocalFn.SanmarA, "csv", TRUE, << SanmarRow(Cell.TrkA, Cell.PoA, Cell.CustAcme) >>),
      LocalFile(LocalFn.SanmarB, "xlsx", TRUE,
                << SanmarRow(Cell.TrkB, Cell.PoB, Cell.CustBeta), SanmarRow(Cell.TrkC, Cell.PoC, Cell.CustBeta),
                   SanmarRow(Cell.TrkF, Cell.PoOoshirts, CustomerText.GetOnChat) >>),
      LocalFile(LocalFn.Ss, "xlsx", TRUE,
                << SsRow(Hdr.TrackingNumber, Hdr.CustomerPo, Hdr.Customer),
                   SsRow(Cell.TrkD, Cell.PoC, CustomerText.EretailingLlc), << >> >>),
      LocalFile(LocalFn.Inbound, "csv", TRUE,
                << InboundRow(Cell.TrkE, Cell.Ref8001234, Cell.ShipperUps),
                   InboundRow(Cell.TrkC, Cell.RefPlain, Cell.ShipperUps),
                   InboundRow(Cell.TrkG, Cell.RefTwo, Cell.ShipperUps) >>),
      LocalFile(LocalFn.Inbound2, "xlsx", TRUE,
                << InboundRow(Cell.TrkA, Cell.RefNote, Cell.ShipperUps), << Cell.TrkD >> >>),
      LocalFile(LocalFn.Inbound2, "xlsx", FALSE, << >>),
      LocalFile(Fn.CustomInk, "xlsx", TRUE, << SanmarRow(Cell.TrkA, Cell.PoC, Cell.CustBeta) >>),
      LocalFile(LocalFn.Readme, "csv", TRUE, << SanmarRow(Cell.TrkA, Cell.PoC, Cell.CustBeta) >>) }

MaxLocalFiles == 2

\* what the directory listing can return: files of distinct names in any order
LocalFileLists ==
    UNION { { fs \in [1..n -> LocalFileUniverse] :
                \A i, j \in 1..n : i # j => fs[i].filename # fs[j].filename }
            : n \in 0..MaxLocalFiles }

OrdersFile(readable, headers, rows) ==
    [exists |-> TRUE, readable |-> readable, headers |-> headers, rows |-> rows]

OrdersHeaders == << Hdr.OrderNo, Hdr.Vendor, Hdr.DueDate, Hdr.Status >>

OrdersUniverse ==
    { [exists |-> FALSE],
      OrdersFile(FALSE, OrdersHeaders, << >>),
      OrdersFile(TRUE, OrdersHeaders,
                 << << Cell.OrdA, Cell.DeptEmb, Cell.Date1, Cell.StatusPipelined >>,
                    << Cell.OrdB, Cell.DeptX, Cell.Date2, Cell.StatusOnHold >>,
                    << Cell.Ord8, Cell.DeptScreen, Cell.Date3, Cell.StatusPending >>,
                    << Cell.Ord5, Cell.DeptDtg, Cell.Date1, Cell.StatusShipped >>,
                    << Cell.OrdDash, Cell.DeptDtg, Cell.Date1, Cell.StatusShipped >> >>),
      OrdersFile(TRUE, OrdersHeaders,
                 << << Cell.OrdA, Cell.DeptDtg, Cell.Date3, Cell.StatusShipped >>,
                    << Cell.OrdAHash, Cell.DeptEmb, Cell.Date1, Cell.StatusPipelined >>,
                    << Cell.Ord5, Cell.DeptDtg, Cell.Date1, Cell.StatusShipped >> >>),
      OrdersFile(TRUE, << Hdr.Id, Hdr.Department >>,
                 << << Cell.OrdB, Cell.DeptX >>, << Cell.Ord8, Cell.DeptScreen >> >>),
      OrdersFile(TRUE, << Hdr.Po, Hdr.Vendor >>, << << Cell.OrdA, Cell.DeptEmb >> >>),
      OrdersFile(TRUE, << Hdr.OrderNo, Hdr.Vendor, Hdr.DueDate, Hdr.OrderStatus >>,
                 << << Cell.OrdA, Cell.DeptEmb, Cell.Date1, Cell.StatusPipelined >> >>) }

InitLocal ==
    /\ manifest_dir \in BOOLEAN
    /\ orders_file \in (IF manifest_dir THEN OrdersUniverse ELSE {[exists |-> FALSE]})
    /\ manifest_files \in (IF manifest_dir THEN LocalFileLists ELSE {<< >>})
    /\ order_index = EmptyDict
    /\ index = EmptyDict
    /\ stats = EmptyDict
    /\ saved = EmptyDict
    /\ published = EmptyDict
    /\ lpc = "start"
    /\ lpos = 0
    /\ NzIdle
    /\ CloudIdle
    /\ ScanIdle

-----------------------------------------------------------------------------
(* The station and the local builder together                              *)

ScanInputs == {<< >>, Cell.TrkA, << " " >> \o Cell.TrkD \o << " " >>, Cell.TrkE, Cell.TrkF, Cell.TrkNone}

\* how the lookup requests of one scan can go: the first answer, the
\* operator's choice at the retry prompt, the answer to the retry
ApiRuns ==
    { << "ok", FALSE, "ok" >>, << "error", FALSE, "ok" >>, << "timeout", FALSE, "ok" >>,
      << "timeout", TRUE, "ok" >>, << "timeout", TRUE, "timeout" >>,
      << "timeout", TRUE, "error" >> }

\* what the printer and the scan log make of a scan: os.startfile may raise,
\* which every print function catches and reports ("Print error"); log_scan
\* tries the local file when the log path fails and gives the row up when
\* that write fails too.  labels and logs are then what was printed and
\* what was written.
PrintAndLog(s, printer, logfile) ==
    [s EXCEPT !.labels = IF printer = "ok" THEN @ ELSE << >>,
              !.logs = IF logfile = "ok" THEN @ ELSE << >>,
              !.dialog = IF printer # "ok" /\ s.labels # << >> THEN "Print error" ELSE @]

\* one scan at the station, against the index of the finished local build;
\* the printer and the log are reached only when the lookup was answered
ProcessTracking ==
    /\ lpc = "done"
    /\ ~scan.done
    /\ \E raw \in ScanInputs, run \in ApiRuns :
          \E printer, logfile \in
                 (IF raw # << >> /\ (run[1] = "ok" \/ (run[2] /\ run[3] = "ok"))
                  THEN {"ok", "failed"} ELSE {"ok"}) :
              scan' = PrintAndLog(process_tracking(raw, run[1], run[2], run[3], published),
                                  printer, logfile)
    /\ UNCHANGED << localVars, index, published, notLocal >>

NextLocal ==
    \/ StartLocalBuild
    \/ ProcessLocalFile
    \/ SaveIndexLocally
    \/ UploadLocalIndex
    \/ ProcessTracking

SpecLocal == InitLocal /\ [][NextLocal]_vars

-----------------------------------------------------------------------------
(* The station on its own: one scan against an index that a builder left   *)
(* in the store                                                            *)

\* an index entry as the builders write it; the local builder adds the order
\* fields, and the shipper fields for Inbound
StationEntry(source_type, po, customer, department, status) ==
    [source |-> source_type, sourceType |-> source_type, po |-> po,
     customer |-> customer, department |-> department, dueDate |-> Cell.Date1,
     status |-> status, shipperName |-> Cell.ShipperUps,
     referenceTokens |-> << Cell.RefPlain >>]

\* the published index: empty, or one key with an entry of one of the
\* source kinds, or of a kind the station does not know, with one of the
\* status texts of the orders workbook
StationIndexes ==
    { EmptyDict } \cup
    { DictPut(EmptyDict, Cell.TrkA, StationEntry(source_type, po, customer, department, status)) :
          source_type \in {"sanmar", "ss", "inbound", "customink", "manual"},
          po \in {Cell.PoA, Cell.PoOoshirts, << >>},
          customer \in {Cell.CustAcme, CustomerText.GetOnChat, CustomerText.EretailingLlc},
          department \in {<< >>, Cell.DeptEmb},
          status \in { << >>, Cell.StatusPipelined, Cell.StatusOnHold,
                       Cell.StatusPending, Cell.StatusShipped, Cell.StatusBoth,
                       Cell.StatusInPipeline } }

InitStation ==
    /\ published \in StationIndexes
    /\ index = EmptyDict
    /\ manifest_dir = FALSE
    /\ orders_file = [exists |-> FALSE]
    /\ manifest_files = << >>
    /\ order_index = EmptyDict
    /\ stats = EmptyDict
    /\ saved = EmptyDict
    /\ lpc = "done"
    /\ lpos = 0
    /\ NzIdle
    /\ CloudIdle
    /\ ScanIdle

NextStation == ProcessTracking

SpecStation == InitStation /\ [][NextStation]_vars

-----------------------------------------------------------------------------
(* Claims about the local builder and the scan station                     *)

\* the manifest loop of build_index_from_local has ended with an index
LocalBuildFinished == lpc \in {"upload", "done"}

\* the manifest loop is running and has files left
LocalCollecting == lpc = "files" /\ lpos <= Len(manifest_files)

\* the files of the listing that the manifest loop reads
ReadsFile(f) == ~SkippedFile(f.filename)

\* the entries file f yields when it is the only file of the directory
OwnLocalIndex(f) ==
    LocalRows([index |-> EmptyDict, stats |-> ZeroStats], read_manifest(f), 1,
              f.filename, detect_manifest_type(f.filename), order_index).index

HoldsKey(f, key) == ReadsFile(f) /\ f.readable /\ key \in DOMAIN OwnLocalIndex(f)

\* entry e carries exactly the department, dueDate and status of record rec
CarriesRecord(e, rec) ==
    /\ "department" \in DOMAIN e /\ e["department"] = rec.department
    /\ "dueDate" \in DOMAIN e /\ e["dueDate"] = rec.dueDate
    /\ "status" \in DOMAIN e /\ e["status"] = rec.status

CarriesNoRecord(e) == DOMAIN e \cap {"department", "dueDate", "status"} = {}

\* C2: two manifests of the same source kind hold tracking key K with
\* different POs and are processed A then B: the final entry for K is B's
\* entry, whole (last-write-wins), never A's. Stated for the local builder:
\* when the build has ended, a key that two files of one kind hold carries
\* the entry of the later file, if no file after it holds the key.
C2_LastWriteWins ==
    LocalBuildFinished =>
        \A i, j \in 1..Len(manifest_files) :
            \A key \in DOMAIN index :
                ( /\ i < j
                  /\ detect_manifest_type(manifest_files[i].filename)
                        = detect_manifest_type(manifest_files[j].filename)
                  /\ HoldsKey(manifest_files[i], key)
                  /\ HoldsKey(manifest_files[j], key)
                  /\ \A k \in (j + 1)..Len(manifest_files) : ~HoldsKey(manifest_files[k], key) )
                => index[key] = OwnLocalIndex(manifest_files[j])[key]

\* C6: after a build, every index entry whose PO reduced to digits is a key
\* of the Order-Status Table carries that record's department, dueDate and
\* status.
C6_EntriesCarryOrderRecord ==
    LocalBuildFinished =>
        \A key \in DOMAIN index :
            DigitsOf(index[key].po) \in DOMAIN order_index
                => CarriesRecord(index[key], order_index[DigitsOf(index[key].po)])

\* PO " 1234567A " against the table key "1234567" of department "Dept X"
C6_Witness ==
    /\ LocalBuildFinished
    /\ Cell.OrdB \in DOMAIN order_index
    /\ \E key \in DOMAIN index :
          /\ index[key].po = Cell.PoB
          /\ index[key].department = Cell.DeptX

\* C7, as the code has it: an entry is enriched when it is inserted, not in a
\* pass after collection; at every moment of the build, also while files are
\* still to be read, each entry carries the fields of the order record that
\* matches the PO stored for it, and no such field when no record matches.
C7_EntryMatchesStoredPo ==
    \A key \in DOMAIN index :
        IF DigitsOf(index[key].po) \in DOMAIN order_index
        THEN CarriesRecord(index[key], order_index[DigitsOf(index[key].po)])
        ELSE CarriesNoRecord(index[key])

\* an enriched entry while the manifest loop still has a file to read
C7_Witness ==
    /\ LocalCollecting
    /\ \E key \in DOMAIN index :
          /\ DigitsOf(index[key].po) \in DOMAIN order_index
          /\ index[key].department = Cell.DeptEmb

\* C7 as stated: enrichment is applied after all tracking entries are
\* collected (no entry is enriched while files are still being read), and the
\* final fields are those of the record matching the final PO.
C7_EnrichedAfterCollection ==
    /\ lpc = "files" => \A key \in DOMAIN index : CarriesNoRecord(index[key])
    /\ C6_EntriesCarryOrderRecord

\* the inbound entries made from the reference "8001234B|extra text"
FromReference8001234(e) ==
    /\ e.sourceType = "inbound"
    /\ e.referenceTokens = ReferenceTokens(Cell.Ref8001234)

OrderRowOfScenario ==
    /\ orders_file.exists
    /\ orders_file.readable
    /\ orders_file.headers = OrdersHeaders
    /\ \E i \in 1..Len(orders_file.rows) :
          /\ DigitsOf(orders_file.rows[i][1]) = Cell.OrdA
          /\ SubSeq(orders_file.rows[i], 2, 4) = << Cell.DeptEmb, Cell.Date1, Cell.StatusPipelined >>
          /\ \A j \in (i + 1)..Len(orders_file.rows) : DigitsOf(orders_file.rows[j][1]) # Cell.OrdA

\* the Sanmar row {1Z999AA10123456784, 7654321B, Acme} is read, and no file
\* read before it holds the same key
SanmarRowOfScenario ==
    \E i \in 1..Len(manifest_files) :
        /\ detect_manifest_type(manifest_files[i].filename) = "sanmar"
        /\ ReadsFile(manifest_files[i])
        /\ manifest_files[i].rows = << SanmarRow(Cell.TrkA, Cell.PoA, Cell.CustAcme) >>
        /\ \A j \in 1..(i - 1) : ~HoldsKey(manifest_files[j], Cell.TrkA)

C10_OrderKeysDigitsAtLeastSix ==
    /\ \A key \in DOMAIN order_index : AllDigits(key) /\ Len(key) >= MinOrderDigits
    /\ (orders_file.exists /\ LastHeader(orders_file.headers, "order") # 0) =>
          LET order_col == LastHeader(orders_file.headers, "order")
          IN  \A i \in 1..Len(orders_file.rows) :
                  Len(DigitsOf(orders_file.rows[i][order_col])) <= 5
                      => DigitsOf(orders_file.rows[i][order_col]) \notin DOMAIN order_index

\* a table read from a workbook that has a five-digit order row
C10_Witness ==
    /\ lpc # "start"
    /\ order_index # EmptyDict
    /\ \E i \in 1..Len(orders_file.rows) : orders_file.rows[i][1] = Cell.Ord5

-----------------------------------------------------------------------------
(* Claims about a whole run of the cloud builder                           *)

\* the index after loop ph has read its manifests from position i on
RECURSIVE AfterLoop(_, _, _)
AfterLoop(idx, ph, i) ==
    IF i > Len(PhaseList(ph)) THEN idx
    ELSE AfterLoop(IF ph = "sanmar" THEN IndexSanmarFile(idx, PhaseList(ph)[i])
                   ELSE IndexManifest(idx, PhaseList(ph)[i], RulesOf(ph), SourceOf(ph)),
                   ph, i + 1)

\* the index after the loops from place k of PhaseOrder on
RECURSIVE AfterLoops(_, _)
AfterLoops(idx, k) ==
    IF PhaseOrder[k] \notin LoopPhases THEN idx
    ELSE AfterLoops(AfterLoop(idx, PhaseOrder[k], 1), k + 1)

\* what the six loops make of the listed manifests
CompleteIndex == AfterLoops(EmptyDict, 1)

UploadPassed == phase \in {"cleanup", "combined", "done", "crashed"}

\* C11: the index is built in local memory and published by one call that
\* replaces the whole index at the end of the run: at every point of a run the
\* published index is the complete index published before, or the complete new
\* one, and it is the new one only after the upload.
C11_ReadersSeeCompleteIndex ==
    \/ published = PreviousIndex
    \/ UploadPassed /\ published = index /\ index = CompleteIndex

\* a run over two manifests published a new index of two keys or more, and the
\* clean-up that follows the upload has run
C11_Witness ==
    /\ phase = "done"
    /\ Len(manifests) = 2
    /\ published # PreviousIndex
    /\ published = index
    /\ Cardinality(DOMAIN published) >= 2

\* the lines printed so far that name a file of loop ph with one of the tags
LinesOf(ph, tags) ==
    {i \in 1..Len(output) :
        output[i].tag \in tags /\ output[i].filename = FilenameOf(ph)}

\* a manifest whose `try:` block prints a line: it cannot be read, or it
\* appears corrupted, or it has a tracking column
Reported(ph, m) ==
    \/ ~m.readable
    \/ ph = "sanmar" /\ AppearsCorrupted(m.content)
    \/ ColumnOf(m.headers, RulesOf(ph), 1) # 0

\* the step that meets a manifest that cannot be read leaves the index and the
\* frames kept for the combined files as they are, prints the error for that
\* file and goes on to the next manifest
FailedFileIsolated ==
    (phase \in LoopPhases /\ ~Current.readable) =>
        /\ index' = index
        /\ sanmar_dfs' = sanmar_dfs
        /\ ss_dfs' = ss_dfs
        /\ output' = Append(output, Line("error", Current.filename, 0))
        /\ << phase', pos' >> = Cursor(PhaseIndex(phase), pos + 1)

\* when the loops are over every manifest of every kind has been through its
\* `try:` block: one error line for each that could not be read, one line for
\* each of the others that prints one
EveryFileProcessed ==
    phase = "upload" =>
        \A ph \in LoopPhases :
            LET l == PhaseList(ph)
            IN  /\ Cardinality(LinesOf(ph, {"error"}))
                       = Cardinality({i \in 1..Len(l) : ~l[i].readable})
                /\ Cardinality(LinesOf(ph, {"error", "corrupted", "count"}))
                       = Cardinality({i \in 1..Len(l) : Reported(ph, l[i])})

\* C12: a manifest whose fetch or parse fails is skipped without aborting the
\* batch: the index is left as it was before that file, every remaining
\* manifest of every kind is still processed, and the failure is reported for
\* that file.
C12_FailedFileSkipped == [][FailedFileIsolated]_vars /\ []EveryFileProcessed

\* an S&S file could not be read, the Inbound file listed after it was indexed,
\* and the run went on to its end
C12_Witness ==
    /\ phase = "done"
    /\ Len(manifests) = 2
    /\ ~manifests[1].readable
    /\ manifests[2].type = "inbound"
    /\ index # EmptyDict
    /\ output[1] = Line("error", manifests[1].filename, 0)
    /\ output[2].tag = "count" /\ output[2].n = 1

\* the upload of the index was answered with a status other than 200
UploadRejected == \E i \in 1..Len(output) : output[i].tag = "upload_error"

\* C13 as claimed: when the store rejects the final index the run ends as
\* failed, with the status shown: it is not reported as done and it does not go
\* on as it does after an accepted upload (no file is deleted, none is posted).
C13_RejectedPublishFailsRun ==
    UploadRejected =>
        /\ phase # "done"
        /\ \A i \in 1..Len(output) : output[i].tag # "done"
        /\ store = [deleted |-> {}, posted |-> << >>]

\* C14 as claimed: every run completes with its count summary and the outcome
\* of the publish call; neither a bad manifest nor a failing publish call ends
\* a run of either builder with an exception that nothing catches.
C14_NoUnhandledFault == lpc # "crashed" /\ phase # "crashed"

\* the combined files of one type that the listing held before the run
OldCombined(type) == {i \in 1..Len(manifests) : manifests[i].type = type}

\* the combined files of one type that the run posted
NewCombined(type) ==
    {j \in 1..Len(store.posted) : store.posted[j].type = type}

\* C15 as claimed: after a run, for each kind (Sanmar, S&S) whose combined file
\* was in the store before, the old file is deleted and the newly computed one
\* stands in its place, so the kind still has a combined file.
C15_CombinedReplaced ==
    phase = "done" =>
        \A type \in {"sanmar_combined", "ss_combined"} :
            OldCombined(type) # {} =>
                /\ OldCombined(type) \subseteq store.deleted
                /\ Cardinality(NewCombined(type)) = 1

\* C16 as claimed: a build run never calls the store's delete operation, so no
\* manifest is deleted from the store during a run.
C16_BuildNeverDeletes == store.deleted = {}

\* a step of the run deletes nothing but listed files with 'combined' in their
\* filename, and it does so only in the clean-up that follows the index upload
DeletesOnlyOldCombined ==
    /\ \A i \in store.deleted' \ store.deleted :
          Contains(manifests[i].filename, Kw.Combined)
    /\ store.deleted' # store.deleted => phase = "cleanup" /\ UploadPassed

\* C16, amended: the build calls the store's delete operation only in the
\* clean-up after the index upload and only for listed files whose filename
\* contains 'combined'; no individual manifest is deleted during a run.
C16_BuildDeletesOnlyOldCombined ==
    [][DeletesOnlyOldCombined]_vars
        /\ [](\A i \in store.deleted : manifests[i].type \in {"ss_combined", "sanmar_combined"})

\* a run deleted the old S&S combined file and left the individual S&S file
\* listed after it in the store
C16_Witness ==
    /\ phase = "done"
    /\ Len(manifests) = 2
    /\ manifests[1].type = "ss_combined"
    /\ manifests[2].type = "ss"
    /\ store.deleted = {1}

\* the first header, in column order, that enters branch `role` (0: none)
FirstColumnOf(headers, rules, role) ==
    LET hits == {i \in 1..Len(headers) : BranchOf(headers[i], rules) = role}
    IN  IF hits = {} THEN 0 ELSE CHOOSE i \in hits : \A j \in hits : i <= j

\* one iteration of a loop indexes the rows of its manifest by the first
\* header of each role
IndexedByFirstHeaders ==
    (/\ phase \in LoopPhases
     /\ Current.readable
     /\ ~(phase = "sanmar" /\ AppearsCorrupted(Current.content))
     /\ FirstColumnOf(Current.headers, RulesOf(phase), 1) # 0) =>
        index' = IndexRows(index, Current.rows, 1,
                           FirstColumnOf(Current.headers, RulesOf(phase), 1),
                           FirstColumnOf(Current.headers, RulesOf(phase), 2),
                           FirstColumnOf(Current.headers, RulesOf(phase), 3),
                           SourceOf(phase))

\* C17 as claimed: when several headers of one manifest match the keywords of
\* the same role, the first of them in column order is the one assigned to the
\* role, so the rows are indexed by that column.
C17_FirstMatchingHeaderWins == [][IndexedByFirstHeaders]_vars

-----------------------------------------------------------------------------
(* Claims about schema detection                                           *)

OrderRoles == {"order", "dept", "due", "status"}

\* C18 as claimed: in a schema-detection pass a header is assigned to at most
\* one role; in the order-status workbook no column is at once the column of
\* two of the roles order, department, due date and status.
C18_HeaderHasOneRole ==
    (lpc # "start" /\ orders_file.exists /\ orders_file.readable) =>
        \A r1, r2 \in OrderRoles :
            (r1 # r2 /\ LastHeader(orders_file.headers, r1) # 0) =>
                LastHeader(orders_file.headers, r1) # LastHeader(orders_file.headers, r2)

\* no header of the manifest holds a keyword of the tracking role
NoTrackingHeader(m, rules) ==
    \A i \in 1..Len(m.headers) :
        \A kw \in rules[1] : ~Contains(Lower(m.headers[i]), kw)

\* the step that reads a manifest without tracking header changes no entry of
\* the index and prints nothing for the file, neither a count nor an error
NoTrackingHeaderNoEffect ==
    (phase \in LoopPhases /\ Current.readable
         /\ NoTrackingHeader(Current, RulesOf(phase))) =>
        /\ index' = index
        /\ output' = output
        /\ << phase', pos' >> = Cursor(PhaseIndex(phase), pos + 1)

\* C19: a manifest in which no header is assigned the tracking role contributes
\* zero entries: reading it leaves the index unchanged and it is not counted or
\* reported as an error.
C19_NoTrackingHeaderSkipped == [][NoTrackingHeaderNoEffect]_vars

\* an S&S file was indexed, then the CustomInk listing without tracking header
\* was read, and the run ended with the one key and the one count line of the
\* S&S file before the total
C19_Witness ==
    /\ phase = "done"
    /\ Len(manifests) = 2
    /\ manifests[1].type = "ss"
    /\ manifests[2].headers = HeadersNoTracking
    /\ Cardinality(DOMAIN index) = 1
    /\ output[1].tag = "count"
    /\ output[2].tag = "total" /\ output[2].n = 1

-----------------------------------------------------------------------------
(* Claims about the combined manifests                                     *)

\* the day of a date cell, counted as date.toordinal() counts it (0: the cell
\* holds no date written year-month-day)
DayOf(cell) ==
    LET parsed == ParseYmd(Prefix(cell, 10))
    IN  IF parsed.ok THEN Ordinal(parsed.year, parsed.month, parsed.day) ELSE 0

\* the rows the claimed window keeps: dated from today - 10 days to today, or
\* without a date that parses
InWindow(row, ship_date_col) ==
    LET day == DayOf(row[ship_date_col])
    IN  day = 0 \/ (DayOf(Cell.Today) - WindowDays <= day /\ day <= DayOf(Cell.Today))

\* the rows a step has added to the frames kept for a combined file
AddedRows(before, after) ==
    IF Len(after) = Len(before) THEN << >> ELSE after[Len(after)].rows

\* the step that reads an individual S&S or Sanmar file with a ship date
\* column keeps exactly the rows of the claimed window
KeepsWindowRows ==
    (/\ phase \in {"ss", "sanmar"}
     /\ Current.readable
     /\ ~(phase = "sanmar" /\ AppearsCorrupted(Current.content))
     /\ ColumnOf(Current.headers, RulesOf(phase), 4) # 0) =>
        LET col == ColumnOf(Current.headers, RulesOf(phase), 4)
            kept(row) == InWindow(row, col)
        IN  /\ AddedRows(ss_dfs, ss_dfs')
                = (IF phase = "ss" THEN SelectSeq(Current.rows, kept) ELSE << >>)
            /\ AddedRows(sanmar_dfs, sanmar_dfs')
                = (IF phase = "sanmar" THEN SelectSeq(Current.rows, kept) ELSE << >>)

\* C20 as claimed: the combined projection of a kind holds exactly the original
\* rows whose ship date lies in the closed window [today - 10 days, today]:
\* rows dated before the window or after today are left out, rows without a
\* date that parses are kept.
C20_ProjectionHoldsWindowRows == [][KeepsWindowRows]_vars

\* the rows of `rows` whose cell in column `col` occurs in no earlier row
RECURSIVE FirstOccurrences(_, _)
FirstOccurrences(rows, col) ==
    IF rows = << >> THEN << >>
    ELSE LET front == SubSeq(rows, 1, Len(rows) - 1)
             last == rows[Len(rows)]
         IN  IF \E k \in 1..Len(front) : front[k][col] = last[col]
             THEN FirstOccurrences(front, col)
             ELSE Append(FirstOccurrences(front, col), last)

\* the frames a published combined manifest was made of
FramesOf(type) == IF type = "sanmar_combined" THEN sanmar_dfs ELSE ss_dfs

\* C21 as claimed: in a published combined manifest no two rows hold the same
\* value in the tracking-number column, and the rows are the first occurrences
\* of their tracking numbers among the rows of the contributing manifests,
\* taken in the order in which the manifests were processed.
C21_ProjectionKeepsFirstPerTracking ==
    \A p \in 1..Len(store.posted) :
        LET f == store.posted[p]
            tracking_col == ColumnOf(f.headers, CombinedRules, 1)
        IN  tracking_col # 0 =>
                /\ \A i, j \in 1..Len(f.rows) :
                       f.rows[i][tracking_col] = f.rows[j][tracking_col] => i = j
                /\ f.rows = FirstOccurrences(Concat(FramesOf(f.type)).rows,
                                             tracking_col)

(***************************************************************************)
(* Claims about the Sanmar downloads                                       *)
(***************************************************************************)
\* the bytes start with a quote character or with "Deco", after a UTF-8 BOM
\* or without one
StartsWithPreamble(content) ==
    LET text == IF StartsWith(content, Bom)
                THEN SubSeq(content, Len(Bom) + 1, Len(content))
                ELSE content
    IN  StartsWith(text, << "\"" >>) \/ StartsWith(text, << "D", "e", "c", "o" >>)

\* the step of the Sanmar loop on a download that could be fetched: without a
\* preamble it leaves the index and the Sanmar frames as they are, with one it
\* is parsed, indexed and kept for the combined manifest
SanmarDownloadSniffed ==
    (phase = "sanmar" /\ Current.readable) =>
        IF StartsWithPreamble(Current.content)
        THEN /\ index' = IndexManifest(index, Current, SanmarRules, "sanmar")
             /\ sanmar_dfs' = KeepRecent(sanmar_dfs, Current, SanmarRules, "sanmar")
        ELSE /\ index' = index
             /\ sanmar_dfs' = sanmar_dfs

\* C22 as claimed: an individual Sanmar download whose first bytes are neither
\* a quote character nor "Deco", each optionally after a UTF-8 BOM, is
\* rejected as corrupted and adds nothing to the index or to the Sanmar
\* projection; a download that starts with such a preamble is parsed.
C22_SanmarWithoutPreambleRejected == [][SanmarDownloadSniffed]_vars

(***************************************************************************)
(* Claims about one scan at the station                                    *)
(***************************************************************************)
\* the scan found its tracking number in the published index
ScanFound == scan.done /\ scan.tracking \in DOMAIN published /\ scan.returned

\* the status text of the entry that the scan found
ScannedStatus == Lower(published[scan.tracking].status)

HoldsPipelineWord ==
    \/ Contains(ScannedStatus, GuiKw.Pipelined)
    \/ Contains(ScannedStatus, GuiKw.Pipeline)
    \/ Contains(ScannedStatus, GuiKw.Pending)

\* C23: the pipeline flag derived from a status text is "On Hold" when the
\* lower-cased status contains "on hold", also when it contains a pipeline
\* keyword as well; it is "Pipelined" when the status contains "pipelined",
\* "pipeline" or "pending" and not "on hold"; otherwise it is empty.
C23_PipelineFlagFromStatus ==
    ScanFound =>
        /\ Contains(ScannedStatus, GuiKw.OnHold) =>
               scan.resolved.pipeline_flag = GuiKw.OnHoldText
        /\ (~Contains(ScannedStatus, GuiKw.OnHold) /\ HoldsPipelineWord) =>
               scan.resolved.pipeline_flag = GuiKw.PipelinedText
        /\ (~Contains(ScannedStatus, GuiKw.OnHold) /\ ~HoldsPipelineWord) =>
               scan.resolved.pipeline_flag = << >>

\* a scan of an order whose status names both a pipeline keyword and "on hold"
C23_Witness ==
    /\ ScanFound
    /\ published[scan.tracking].status = Cell.StatusBoth
    /\ HoldsPipelineWord
    /\ scan.resolved.pipeline_flag = GuiKw.OnHoldText

(***************************************************************************)
(* Claims about the Order-Status Table                                     *)
(***************************************************************************)
\* the orders workbook was read into order_index
OrdersRead ==
    /\ lpc \notin {"start", "idle"}
    /\ manifest_dir
    /\ orders_file.exists
    /\ orders_file.readable
    /\ LastHeader(orders_file.headers, "order") # 0

\* the rows of the orders workbook that reduce to the digits `key`
RowsOfKey(key) ==
    {i \in 1..Len(orders_file.rows) :
        DigitsOf(orders_file.rows[i][LastHeader(orders_file.headers, "order")]) = key}

\* C24: when several rows of the orders workbook reduce to the same digits-only
\* key, order_index holds one record under that key, and its department,
\* dueDate and status are the cells of the last of these rows in file order;
\* nothing of the earlier rows is left in it.
C24_LastOrderRowWins ==
    OrdersRead =>
        \A key \in DOMAIN order_index :
            /\ RowsOfKey(key) # {}
            /\ LET last == CHOOSE i \in RowsOfKey(key) : \A j \in RowsOfKey(key) : j <= i
                    row == orders_file.rows[last]
               IN  order_index[key] =
                       [department |-> OrderCell(row, LastHeader(orders_file.headers, "dept")),
                        dueDate |-> OrderCell(row, LastHeader(orders_file.headers, "due")),
                        status |-> OrderCell(row, LastHeader(orders_file.headers, "status"))]

\* a workbook with two rows for order 7654321 that differ in every field
C24_Witness ==
    /\ OrdersRead
    /\ Cell.OrdA \in DOMAIN order_index
    /\ Cardinality(RowsOfKey(Cell.OrdA)) = 2
    /\ order_index[Cell.OrdA] =
           [department |-> Cell.DeptEmb, dueDate |-> Cell.Date1,
            status |-> Cell.StatusPipelined]

\* the lookup requests of the scan: one, or two of which the first timed out
\* and was followed by the operator's yes at the retry prompt
RequestsAsClaimed ==
    /\ Len(scan.answers) = Len(scan.timeouts)
    /\ scan.timeouts \in {<< >>, << LookupTimeout >>, << LookupTimeout, RetryTimeout >>}
    /\ (scan.answers # << >> /\ scan.answers[1] = "timeout") <=> scan.prompt # << >>
    /\ Len(scan.answers) = 2 <=> scan.prompt = << TRUE >>

\* the scan ended on a declined retry, a failed retry or an error that is not
\* a timeout
ScanGaveUp ==
    \/ scan.prompt = << FALSE >>
    \/ Len(scan.answers) = 2 /\ scan.answers[2] # "ok"
    \/ scan.answers = << "error" >>

\* C25: every lookup request of a scan has a timeout (10 s, 60 s for the
\* retry); a timed-out first lookup leads to the retry prompt; a scan makes at
\* most two requests, the second only after the first timed out and the
\* operator accepted the retry; a declined retry, a failed retry or a
\* non-timeout error ends the scan with False and without a label.
C25_RetryOnlyAfterTimeoutAndConsent ==
    scan.done =>
        /\ RequestsAsClaimed
        /\ ScanGaveUp => (~scan.returned /\ scan.labels = << >>)

\* a scan whose first lookup timed out and whose accepted retry found the entry
C25_Witness ==
    /\ scan.done
    /\ scan.answers = << "timeout", "ok" >>
    /\ scan.prompt = << TRUE >>
    /\ scan.timeouts = << LookupTimeout, RetryTimeout >>
    /\ scan.returned
    /\ scan.labels # << >>

(***************************************************************************)
(* Claims about the order of the source kinds                              *)
(***************************************************************************)
KindOrder == << "ss_combined", "sanmar_combined", "ss", "sanmar", "customink", "inbound" >>

\* C26: the kinds are processed in the order S&S combined, Sanmar combined,
\* S&S, Sanmar, CustomInk, Inbound, so a key held by manifests of several kinds
\* ends with the sourceType, po and customer written by the kind that comes
\* latest in this order.  The index is final when the last loop has ended and
\* the upload is about to be made.
C26_LatestKindWins ==
    phase = "upload" =>
        LET keys == [k \in 1..Len(KindOrder) |-> KeysIn(KindOrder[k])]
        IN  \A K \in DOMAIN index :
                LET holders == {k \in 1..Len(KindOrder) : K \in keys[k]}
                    latest == CHOOSE k \in holders : \A j \in holders : j <= k
                IN  /\ holders # {}
                    /\ index[K] = LastEntryIn(KindOrder[latest], K)

\* a key held by a Sanmar file and by the Inbound file, with different POs,
\* ended with the entry of the Inbound file
C26_Witness ==
    /\ phase = "upload"
    /\ \E K \in KeysIn("sanmar") \cap KeysIn("inbound") :
          /\ LastEntryIn("sanmar", K).po # LastEntryIn("inbound", K).po
          /\ index[K].sourceType = "inbound"
          /\ index[K].po = LastEntryIn("inbound", K).po
          /\ index[K].customer = LastEntryIn("inbound", K).customer

(***************************************************************************)
(* Claims about the reference tokens of Inbound rows                       *)
(***************************************************************************)
\* the places of the tokens whose digit run before a letter is an order of the
\* table
KnownTokens(tokens) ==
    {k \in 1..Len(tokens) :
        CiMatch(tokens[k]).matched /\ CiMatch(tokens[k]).group \in DOMAIN order_index}

\* the po of the entry is the reference cell (column B, empty when the row
\* ends before it) of a row of an Inbound file of the directory that holds
\* the key
ReferenceAsRead(key, e) ==
    \E i \in 1..Len(manifest_files) :
        LET f == manifest_files[i]
        IN  /\ f.filename = e.source
            /\ \E r \in 1..Len(f.rows) :
                   LET reference == IF Len(f.rows[r]) > 1 THEN At(f.rows[r], 1)
                                    ELSE << >>
                   IN  /\ key \in {Trackings("inbound", f.rows[r])[t] :
                                      t \in 1..Len(Trackings("inbound", f.rows[r]))}
                       /\ e.po = reference
                       /\ e.referenceTokens = ReferenceTokens(reference)

\* C27: for an Inbound entry of the local builder the first reference token,
\* from the left, whose run of 7 to 10 digits before a letter is a key of
\* order_index gives the entry its po and its department, dueDate and status;
\* tokens after it are ignored and a token whose digit run is not in the table
\* does not end the scan; when no token is in the table the po stays the
\* reference cell as read.
C27_FirstKnownTokenDecides ==
    \A key \in DOMAIN index :
        index[key].sourceType = "inbound" =>
            LET e == index[key]
                known == KnownTokens(e.referenceTokens)
                first == CHOOSE k \in known : \A j \in known : k <= j
                group == CiMatch(e.referenceTokens[first]).group
            IN  IF known # {}
                THEN e.po = group /\ CarriesRecord(e, order_index[group])
                ELSE ReferenceAsRead(key, e)

\* the reference "7654321C | 8001234B": with a table that holds 8001234 and not
\* 7654321 the po is 8001234; with a table that holds both it is 7654321
C27_Witness ==
    /\ LocalBuildFinished
    /\ Cell.TrkG \in DOMAIN index
    /\ index[Cell.TrkG].referenceTokens = << Cell.OrdA \o << "C" >>, Cell.Ord8 \o << "B" >> >>
    /\ Cell.OrdA \notin DOMAIN order_index
    /\ index[Cell.TrkG].po = Cell.Ord8
    /\ index[Cell.TrkG].department = order_index[Cell.Ord8].department

(***************************************************************************)
(* Claims about the rows of the new combined manifests                     *)
(***************************************************************************)
\* the individual manifests of this run whose rows can go into combined file f
IndividualOf(f) ==
    {i \in 1..Len(manifests) :
        /\ manifests[i].readable
        /\ IF f.type = "sanmar_combined"
           THEN IsSanmarFile(manifests[i]) /\ ~AppearsCorrupted(manifests[i].content)
           ELSE IsSsFile(manifests[i])}

\* row r of manifest m laid out in the columns `headers`
RowAs(headers, m, r) ==
    [j \in 1..Len(headers) |->
        IF \E k \in 1..Len(m.headers) : m.headers[k] = headers[j]
        THEN m.rows[r][CHOOSE k \in 1..Len(m.headers) : m.headers[k] = headers[j]]
        ELSE Kw.Nan]

\* C28: every row of a newly published combined manifest is a row of an
\* individual (non-combined) manifest of its kind that was read in this run;
\* no row is taken over from the old combined file, so a tracking number that
\* only the old combined file holds is not in the new one, although this run
\* indexed it.
C28_CombinedFromIndividualOnly ==
    \A p \in 1..Len(store.posted) :
        LET f == store.posted[p]
        IN  \A i \in 1..Len(f.rows) :
                \E n \in IndividualOf(f) :
                    \E r \in 1..Len(manifests[n].rows) :
                        f.rows[i] = RowAs(f.headers, manifests[n], r)

\* the old S&S combined file holds 123456 alone, the S&S file of the day
\* another number: the run indexed 123456 and published a combined file
\* without it
C28_Witness ==
    /\ phase = "done"
    /\ Len(manifests) = 2
    /\ IsSsCombined(manifests[1])
    /\ manifests[1].rows = << Row.C >>
    /\ IsSsFile(manifests[2])
    /\ normalize_tracking(Cell.TrkC) \in DOMAIN index
    /\ Len(store.posted) = 1
    /\ store.posted[1].type = "ss_combined"
    /\ \A i \in 1..Len(store.posted[1].rows) : store.posted[1].rows[i][1] # Cell.TrkC

\* the statuses log_scan is given when a label was sent to the printer
PrintedStatuses ==
    {"Printed", "Manifest Print", "Fast Platform Manifest Print",
     "Inbound CI Fallback", "Inbound Generic", "CustomInk Direct", "Unknown Source"}

\* the lookup was answered and the tracking number is not in the index
ScanNotFound ==
    /\ scan.answers # << >>
    /\ scan.answers[Len(scan.answers)] = "ok"
    /\ scan.tracking \notin DOMAIN published

\* C29 as claimed: a call of process_tracking prints at most one label and
\* appends at most one row to the scan log; it returns True exactly when one
\* label was printed and one row with a printed status was written; a
\* not-found answer writes one "Not Found" row and prints no label; an API
\* error writes no row and prints no label.
C29_OneLabelOneLogRow ==
    scan.done =>
        /\ Len(scan.labels) <= 1
        /\ Len(scan.logs) <= 1
        /\ scan.returned <=>
               /\ Len(scan.labels) = 1
               /\ Len(scan.logs) = 1
               /\ scan.logs[1].status \in PrintedStatuses
        /\ ScanNotFound =>
               /\ scan.labels = << >>
               /\ Len(scan.logs) = 1
               /\ scan.logs[1].status = "Not Found"
        /\ ScanGaveUp => (scan.labels = << >> /\ scan.logs = << >>)

(***************************************************************************)
(* Claims about main() of the local builder                                *)
(***************************************************************************)
\* a step of the local builder writes the local copy only for an index with
\* an entry, and touches the published index only in the upload that follows
\* the save
SaveThenPublish ==
    /\ saved' # saved => (index # EmptyDict /\ saved'.index = index /\ lpc' = "upload")
    /\ published' # published =>
           (lpc = "upload" /\ saved # EmptyDict /\ saved.index = index
               /\ published' = index)

\* the upload is reached only with an index that has an entry and whose local
\* copy is written; a failed build has written and published nothing
PublishNeedsEntries ==
    /\ lpc \in {"upload", "done"} =>
           (index # EmptyDict /\ saved # EmptyDict /\ saved.index = index)
    /\ lpc = "failed" =>
           (/\ ~manifest_dir \/ index = EmptyDict
            /\ saved = EmptyDict
            /\ published = EmptyDict)

\* C30: main() of the local builder saves the index locally and then publishes
\* it only when the index has at least one entry; with an empty index or
\* without a manifest directory it neither saves nor publishes, so the
\* published index stays as it was; a publish is attempted only after the
\* local copy was written.
C30_SaveBeforePublishNonEmptyOnly == [][SaveThenPublish]_vars /\ []PublishNeedsEntries

\* a build without entries ended as failed, with nothing saved or published,
\* although the directory was found and held a file
C30_Witness ==
    /\ lpc = "failed"
    /\ manifest_dir
    /\ Len(manifest_files) > 0
    /\ index = EmptyDict
    /\ saved = EmptyDict
    /\ published = EmptyDict

=============================================================================
